---- MODULE Spec2Model ----
(***************************************************************************)
(* Trade execution of the megaWallet server: the Quote and Trade tables,   *)
(* the four entry points that create a Trade for a Quote (executeTrade,    *)
(* executeNativeSwap, executeNativeSwapFromEvent, initiateSwap), the       *)
(* on-chain calls and payouts they make and the notifications they emit.   *)
(* Every await of the source is one step, so that concurrent calls         *)
(* interleave exactly at the places where the Node.js event loop lets them.*)
(* The quoting side follows: getQuote with the HD wallet cursor it         *)
(* advances (SpecQuote), the deposit monitor (SpecMonitor) and the amounts *)
(* a Quote stores (SpecPricing).                                           *)
(***************************************************************************)
EXTENDS Integers, Sequences, FiniteSets, TLC

\* ------------------------------------------------------------------ bounds
MaxTime == 1
NumCalls == 2

Procs == 1..NumCalls
ExpiresAt == MaxTime - 1

\* ------------------------------------------------- registries (json files)
Networks ==
    [ sepolia         |-> [networkType |-> "EVM",     hasChainId |-> TRUE],
      bitcoin_testnet |-> [networkType |-> "BITCOIN", hasChainId |-> FALSE] ]

Undefined == [networkType |-> "undefined", hasChainId |-> FALSE]

getNetworkById(id) == IF id \in DOMAIN Networks THEN Networks[id] ELSE Undefined

\* assets.json: SYMBOL@NETWORK_ID -> whether the asset is a contract token
Assets ==
    [ BTC_bitcoin_testnet |-> [contractAddress |-> FALSE],
      BTC_sepolia         |-> [contractAddress |-> TRUE],
      ETH_sepolia         |-> [contractAddress |-> FALSE] ]

compositeKey(symbol, networkId) ==
    IF symbol = "BTC" /\ networkId = "bitcoin_testnet" THEN "BTC_bitcoin_testnet"
    ELSE IF symbol = "BTC" /\ networkId = "sepolia" THEN "BTC_sepolia"
    ELSE IF symbol = "ETH" /\ networkId = "sepolia" THEN "ETH_sepolia"
    ELSE "missing"

hasAsset(symbol, networkId) == compositeKey(symbol, networkId) \in DOMAIN Assets

getAssetBySymbol(symbol, networkId) == Assets[compositeKey(symbol, networkId)]

\* ------------------------------------------------------------ quote table
QuoteIds == {"q1", "q2"}
QuoteArgs == QuoteIds \cup {"q0"}
SelectableNetworks == {"sepolia", "bitcoin_testnet", "ghostnet"}

QuoteRows ==
    [ q1 |-> [ expiresAt |-> ExpiresAt, fromNetworkId |-> "sepolia",
               toAssetSymbol |-> "BTC", toNetworkId |-> "bitcoin_testnet",
               recipientAddress |-> TRUE, depositAddress |-> FALSE ],
      q2 |-> [ expiresAt |-> ExpiresAt, fromNetworkId |-> "bitcoin_testnet",
               toAssetSymbol |-> "ETH", toNetworkId |-> "sepolia",
               recipientAddress |-> TRUE, depositAddress |-> TRUE ] ]

\* ---------------------------------------------------------- error messages
NotFoundError(q) == <<"Quote with ID ", q, " not found.">>
ExpiredError == <<"Quote has expired.">>
AlreadyUsedError == <<"This quote has already been used.">>
UniqueConstraintError == <<"Unique constraint failed on the fields: (quoteId)">>
SourceNetworkError == <<"Source network for the quote is invalid.">>
DestNetworkError == <<"Destination network not found.">>
DestAssetError == <<"Destination asset config not found.">>
UnsupportedDestError == <<"Unsupported destination network type">>
TimeoutError == <<"Transaction timed out after 80 seconds.">>
RevertError == <<"Transaction failed on-chain with status 0.">>
ForwarderError == <<"Forwarder for chainId is not configured.">>
PayoutError == <<"Payout transfer failed: ">>
TypeError == <<"TypeError: Cannot read properties of undefined">>
WebSocketError == <<"WebSocketManager has not been initialized. Call initializeWebSocket first.">>

VARIABLES now, quotes, trades, calls, contractCalls, payouts, notifications

\* the quoting side: the HdWalletState row, the BitcoinHDWalletService
\* instance, the getQuote calls in flight, the BitcoinDepositAddress table,
\* the DepositMonitorWorker, the transactions the explorer reports, the
\* initiateSwap invocations of the monitor and the amounts of one quote
VARIABLES hdWalletState, bitcoinWalletService, quoteCalls, bitcoinDepositAddress,
          monitorWorker, explorer, swaps, pricing

\* one sendBitcoin call of the BitcoinPayoutService, the EvmPollingWorker and
\* the chain it polls
VARIABLES bitcoinPayout, pollingWorker, chain

\* the EvmEventMonitorWorker's connections
VARIABLES eventMonitor

\* one findBestQuote over the order books getOrderBooks has fetched
VARIABLES liquidity

\* the quoteId on its way over the chain, the destination network of one
\* quote and the amounts of one UTXO-origin swap
VARIABLES forwarding, routing, conversion

unitVars == <<forwarding, routing, conversion>>

serviceVars == <<eventMonitor, liquidity, unitVars>>

workerVars == <<bitcoinPayout, pollingWorker, chain, serviceVars>>

quotingVars == <<hdWalletState, bitcoinWalletService, quoteCalls, bitcoinDepositAddress,
                 monitorWorker, explorer, swaps, pricing, workerVars>>

vars == <<now, quotes, trades, calls, contractCalls, payouts, notifications, quotingVars>>

\* ------------------------------------------------- the quoting side at rest
NumQuoteCalls == 2
MaxStart == 2
NumDeposits == 2
MaxCycles == 2

QuoteProcs == 1..NumQuoteCalls
DepositIds == 1..NumDeposits
Cycles == 1..MaxCycles

NoRequest ==
    [ fromAssetSymbol |-> "none", fromNetworkId |-> "none",
      toAssetSymbol |-> "none", hasDestination |-> FALSE ]

\* a getQuote call: index and hasAddress are newDepositAddressInfo, loadAtRead
\* is what loadNextAddressIndexFromDB had done when getNewAddress read the index
IdleQuoteCall ==
    [ pc |-> "idle", request |-> NoRequest, expiresAt |-> 0, index |-> 0,
      hasAddress |-> FALSE, loadAtRead |-> "none", outcome |-> "none", err |-> <<>> ]

\* private nextAddressIndex: number = 0, and the load the constructor starts
NewWallet == [nextAddressIndex |-> 0, load |-> "pending"]

NoWalletRow == [exists |-> FALSE, nextIndex |-> 0]

\* one run of checkPendingDeposits, started by start() or by the interval timer
IdleRun == [pc |-> "idle", pending |-> <<>>, tx |-> "none"]

NewMonitor == [isChecking |-> FALSE, runs |-> [c \in Cycles |-> IdleRun]]

NoPricing == [priced |-> FALSE]

NoPayout == [pc |-> "none"]

\* an EvmPollingWorker whose start() has not been called
NoPoller == [started |-> FALSE]

NoChain == [head |-> 0, events |-> {}, mined |-> 0]

\* an EvmEventMonitorWorker whose start() has not been called
NoEventMonitor == [started |-> FALSE]

NoLiquidity == [pc |-> "none"]

NoForwarding == [pc |-> "none"]

NoRouting == [pc |-> "none"]

NoConversion == [pc |-> "none"]

UnitsAtRest ==
    /\ forwarding = NoForwarding
    /\ routing = NoRouting
    /\ conversion = NoConversion

ServicesAtRest ==
    /\ eventMonitor = NoEventMonitor
    /\ liquidity = NoLiquidity
    /\ UnitsAtRest

WorkersAtRest ==
    /\ bitcoinPayout = NoPayout
    /\ pollingWorker = NoPoller
    /\ chain = NoChain
    /\ ServicesAtRest

QuotingAtRest ==
    /\ hdWalletState = NoWalletRow
    /\ bitcoinWalletService = NewWallet
    /\ quoteCalls = [p \in QuoteProcs |-> IdleQuoteCall]
    /\ bitcoinDepositAddress = <<>>
    /\ monitorWorker = NewMonitor
    /\ explorer = <<>>
    /\ swaps = {}
    /\ pricing = NoPricing
    /\ WorkersAtRest


IdleCall ==
    [ kind |-> "none", quoteId |-> "none", pc |-> "idle",
      tradeId |-> 0, err |-> <<>>, txHash |-> "none", finalTxHash |-> "none",
      outcome |-> "none", startedAt |-> 0, tradeExisted |-> FALSE ]

Init ==
    /\ now = 0
    /\ quotes = QuoteRows
    /\ trades = <<>>
    /\ calls = [p \in Procs |-> IdleCall]
    /\ contractCalls = {}
    /\ payouts = {}
    /\ notifications = {}
    /\ QuotingAtRest

\* a lookup that never finds the existing Trade
findFirstTrade_blind(q) == FALSE

\* prisma.trade.findFirst({ where: { quoteId } })
findFirstTrade(q) == \E i \in DOMAIN trades : trades[i].quoteId = q

\* the wall clock advances
Tick ==
    /\ now < MaxTime
    /\ now' = now + 1
    /\ UNCHANGED <<quotes, quotingVars, trades, calls, contractCalls, payouts, notifications>>


\* ------------------------------------------------------------ shared steps
setCall(p, c) == calls' = [calls EXCEPT ![p] = c]

finish(c, outcome, err) ==
    [c EXCEPT !.pc = "done", !.outcome = outcome, !.err = err,
              !.txHash = "none", !.finalTxHash = "none"]

ApiKinds == {"executeTrade", "executeNativeSwap"}

\* the Trade rows that reference quote q
TradesOf(q) == {i \in DOMAIN trades : trades[i].quoteId = q}

\* a call enters the service; calls are numbered in the order they arrive
startCall(p, kind, q) ==
    /\ calls[p].pc = "idle"
    /\ p > 1 => calls[p - 1].pc # "idle"
    /\ setCall(p, [IdleCall EXCEPT !.kind = kind, !.quoteId = q,
                                   !.pc = "findQuote",
                                   !.startedAt = IF kind \in ApiKinds THEN now ELSE 0,
                                   !.tradeExisted = kind \in ApiKinds /\ TradesOf(q) # {}])
    /\ UNCHANGED <<now, quotes, quotingVars, trades, contractCalls, payouts, notifications>>

\* the migration without its CREATE UNIQUE INDEX statement
Trade_quoteId_key_dropped(q) == FALSE

\* CREATE UNIQUE INDEX "Trade_quoteId_key": TRUE when an insert for q is rejected
Trade_quoteId_key(q) == \E i \in DOMAIN trades : trades[i].quoteId = q

NewTrade(q, status, txHash) ==
    [ quoteId |-> q, status |-> status, txHashContractCall |-> txHash,
      txHashFinalTransfer |-> "none", failureReason |-> <<>> ]

\* a create that falls back to the existing row instead of failing (an upsert)
tradeCreate_upsert(p, status, txHash, nextPc, err) ==
    LET c == calls[p] IN
    IF Trade_quoteId_key(c.quoteId)
    THEN /\ setCall(p, [c EXCEPT !.pc = nextPc, !.err = err,
                                 !.tradeId = CHOOSE i \in TradesOf(c.quoteId) : TRUE])
         /\ UNCHANGED trades
    ELSE /\ trades' = Append(trades, NewTrade(c.quoteId, status, txHash))
         /\ setCall(p, [c EXCEPT !.pc = nextPc, !.tradeId = Len(trades) + 1, !.err = err])

\* prisma.trade.create: the insert is rejected (P2002) by the unique index,
\* and the rejection leaves the calling function as it is thrown
tradeCreate(p, status, txHash, nextPc, err) ==
    LET c == calls[p] IN
    IF Trade_quoteId_key(c.quoteId)
    THEN /\ setCall(p, finish(c, "threw", UniqueConstraintError))
         /\ UNCHANGED trades
    ELSE /\ trades' = Append(trades, NewTrade(c.quoteId, status, txHash))
         /\ setCall(p, [c EXCEPT !.pc = nextPc, !.tradeId = Len(trades) + 1, !.err = err])

\* prisma.trade.update({ where: { id }, data })
tradeUpdateCompleted(id, txHash, finalTxHash) ==
    trades' = [trades EXCEPT ![id] = [@ EXCEPT !.status = "COMPLETED",
                                               !.txHashContractCall = txHash,
                                               !.txHashFinalTransfer = finalTxHash]]

tradeUpdateFailed(id, reason) ==
    trades' = [trades EXCEPT ![id] = [@ EXCEPT !.status = "FAILED",
                                               !.failureReason = reason]]

\* an error thrown inside the try block reaches the catch block of the entry
\* point: executeNativeSwap's is catch (error) { throw error; }, the others
\* await the FAILED update next
throwInTry(c, err) ==
    IF c.kind = "executeNativeSwap"
    THEN finish(c, "threw", err)
    ELSE [c EXCEPT !.pc = "catch", !.err = err]

\* PayoutService.sendNativeToken / sendErc20Token and BitcoinPayoutService.sendBitcoin:
\* the transfer is broadcast and confirmed, broadcast but its confirmation
\* fails, broadcast and never mined (await tx.wait(1) has no timeout), or
\* fails before anything is broadcast
PayoutOutcomes(method) ==
    IF method = "sendBitcoin" THEN {"sent", "notSent"}
    ELSE {"sent", "sentWaitFailed", "sentUnmined", "notSent"}

Broadcast(outcome) == outcome \in {"sent", "sentWaitFailed", "sentUnmined"}

\* the call is suspended in await tx.wait(1) on a transaction that is never
\* mined: the promise never settles and nothing resumes the call
awaitForever(c) == [c EXCEPT !.pc = "wait"]

\* which payout the destination branch selects, or the error it raises
payoutMethod(symbol, networkId, needChainId) ==
    LET net == getNetworkById(networkId) IN
    IF net.networkType = "EVM" /\ (needChainId => net.hasChainId)
    THEN IF getAssetBySymbol(symbol, networkId).contractAddress
         THEN "sendErc20Token" ELSE "sendNativeToken"
    ELSE IF net.networkType = "BITCOIN" THEN "sendBitcoin"
    ELSE "unsupported"

\* the payout leg shared by the four entry points
doPayout(p, method) ==
    LET c == calls[p] IN
    \E o \in PayoutOutcomes(method) :
       /\ payouts' = IF Broadcast(o)
                     THEN payouts \cup {[proc |-> p, quoteId |-> c.quoteId, method |-> method]}
                     ELSE payouts
       /\ IF o = "sent"
          THEN setCall(p, [c EXCEPT !.pc = "update", !.finalTxHash = "txPayout"])
          ELSE IF o = "sentUnmined"
          THEN setCall(p, awaitForever(c))
          ELSE setCall(p, throwInTry(c, PayoutError))

\* getWebSocketManager().broadcast(message): throws when no manager exists
broadcast(msg, ok) ==
    notifications' = IF ok THEN notifications \cup {msg} ELSE notifications


UNCH_db == UNCHANGED <<now, quotes, quotingVars, trades, contractCalls, payouts, notifications>>

completedMsg(c) ==
    [type |-> "TRADE_COMPLETED", tradeId |-> c.tradeId, quoteId |-> c.quoteId, reason |-> <<>>]

failedMsg(c) ==
    [type |-> "TRADE_FAILED", tradeId |-> c.tradeId, quoteId |-> c.quoteId, reason |-> c.err]

\* ----------------------------------------------------------- validateQuote
\* validateQuote without its expiry test
isExpired_never(t, expiresAt) == FALSE

\* new Date() > quote.expiresAt
isExpired(t, expiresAt) == t > expiresAt

\* first await of validateQuote: quote.findUnique, then the expiry test
validateQuote_findQuote(p) ==
    LET c == calls[p] IN
    /\ c.kind \in {"executeTrade", "executeNativeSwap"}
    /\ c.pc = "findQuote"
    /\ IF c.quoteId \notin DOMAIN quotes
       THEN setCall(p, finish(c, "threw", NotFoundError(c.quoteId)))
       ELSE IF isExpired(now, quotes[c.quoteId].expiresAt)
       THEN setCall(p, finish(c, "threw", ExpiredError))
       ELSE setCall(p, [c EXCEPT !.pc = "findTrade"])
    /\ UNCH_db

\* second await of validateQuote: trade.findFirst; executeNativeSwap then
\* dereferences the source network before it creates the Trade
validateQuote_findTrade(p) ==
    LET c == calls[p] IN
    /\ c.kind \in {"executeTrade", "executeNativeSwap"}
    /\ c.pc = "findTrade"
    /\ IF findFirstTrade(c.quoteId)
       THEN setCall(p, finish(c, "threw", AlreadyUsedError))
       ELSE IF /\ c.kind = "executeNativeSwap"
               /\ getNetworkById(quotes[c.quoteId].fromNetworkId) = Undefined
       THEN setCall(p, finish(c, "threw", TypeError))
       ELSE setCall(p, [c EXCEPT !.pc = "create"])
    /\ UNCH_db

\* ------------------------------------------------------------ executeTrade
executeTrade_start(p) ==
    \E q \in QuoteArgs : startCall(p, "executeTrade", q)

\* the Trade is created first; the source-network lookup follows inside try
executeTrade_create(p) ==
    LET c == calls[p]
        fromNetwork == getNetworkById(quotes[c.quoteId].fromNetworkId)
    IN
    /\ c.kind = "executeTrade"
    /\ c.pc = "create"
    /\ IF fromNetwork = Undefined \/ ~fromNetwork.hasChainId
       THEN tradeCreate(p, "PENDING", "none", "catch", SourceNetworkError)
       ELSE tradeCreate(p, "PENDING", "none", "contractCall", <<>>)
    /\ UNCHANGED <<now, quotes, quotingVars, contractCalls, payouts, notifications>>

\* EvmContractService.executeTrade: what happens to the submitted transaction
ContractOutcomes == {"mined", "timeout", "reverted", "rejected"}

\* the transaction reached the mempool (tx.hash exists)
Submitted(o) == o \in {"mined", "timeout", "reverted", "unmined"}

\* the error raised inside the try block of EvmContractService.executeTrade
innerError(o) ==
    IF o = "timeout" THEN [message |-> TimeoutError, reason |-> ""]
    ELSE IF o = "reverted" THEN [message |-> RevertError, reason |-> ""]
    ELSE [message |-> <<"execution reverted">>, reason |-> "permit expired"]

\* catch (error): throw new Error(`On-chain transaction failed: ${error.reason || 'Unknown error'}`)
wrapOnChainError(e) ==
    <<"On-chain transaction failed: ", IF e.reason # "" THEN e.reason ELSE "Unknown error">>

executeTrade_contractCall(p) ==
    LET c == calls[p] IN
    /\ c.kind = "executeTrade"
    /\ c.pc = "contractCall"
    /\ \E o \in ContractOutcomes :
         /\ contractCalls' = IF Submitted(o)
               THEN contractCalls \cup {[proc |-> p, quoteId |-> c.quoteId,
                                         method |-> "executeTradeWithPermit", outcome |-> o]}
               ELSE contractCalls
         /\ IF o = "mined"
            THEN setCall(p, [c EXCEPT !.pc = "payout", !.txHash = "txContractCall"])
            ELSE setCall(p, [c EXCEPT !.pc = "catch",
                                      !.err = wrapOnChainError(innerError(o))])
    /\ UNCHANGED <<now, quotes, quotingVars, trades, payouts, notifications>>

\* params.selectedNetworkId is read here for the first time
executeTrade_payout(p) ==
    LET c == calls[p]
        quote == quotes[c.quoteId]
    IN
    /\ c.kind = "executeTrade"
    /\ c.pc = "payout"
    /\ \E sel \in SelectableNetworks :
         IF getNetworkById(sel) = Undefined
         THEN /\ setCall(p, [c EXCEPT !.pc = "catch", !.err = DestNetworkError])
              /\ UNCHANGED payouts
         ELSE IF ~hasAsset(quote.toAssetSymbol, sel)
         THEN /\ setCall(p, [c EXCEPT !.pc = "catch", !.err = DestAssetError])
              /\ UNCHANGED payouts
         ELSE IF payoutMethod(quote.toAssetSymbol, sel, FALSE) = "unsupported"
         THEN /\ setCall(p, [c EXCEPT !.pc = "catch", !.err = UnsupportedDestError])
              /\ UNCHANGED payouts
         ELSE doPayout(p, payoutMethod(quote.toAssetSymbol, sel, FALSE))
    /\ UNCHANGED <<now, quotes, quotingVars, trades, contractCalls, notifications>>

\* the COMPLETED update, then the TRADE_COMPLETED broadcast, still inside try
executeTrade_update(p) ==
    LET c == calls[p] IN
    /\ c.kind = "executeTrade"
    /\ c.pc = "update"
    /\ tradeUpdateCompleted(c.tradeId, c.txHash, c.finalTxHash)
    /\ \E ok \in BOOLEAN :
         /\ broadcast(completedMsg(c), ok)
         /\ IF ok THEN setCall(p, finish(c, "returned", <<>>))
                  ELSE setCall(p, [c EXCEPT !.pc = "catch", !.err = WebSocketError])
    /\ UNCHANGED <<now, quotes, quotingVars, contractCalls, payouts>>

\* catch: the FAILED update, the TRADE_FAILED broadcast, throw error
executeTrade_catch(p) ==
    LET c == calls[p] IN
    /\ c.kind = "executeTrade"
    /\ c.pc = "catch"
    /\ tradeUpdateFailed(c.tradeId, c.err)
    /\ \E ok \in BOOLEAN :
         /\ broadcast(failedMsg(c), ok)
         /\ setCall(p, finish(c, "threw", IF ok THEN c.err ELSE WebSocketError))
    /\ UNCHANGED <<now, quotes, quotingVars, contractCalls, payouts>>

\* the payout leg of the three paths that read the destination from the Quote
quotePayout(p, needChainId) ==
    LET c == calls[p]
        quote == quotes[c.quoteId]
    IN
    IF \/ getNetworkById(quote.toNetworkId) = Undefined
       \/ ~hasAsset(quote.toAssetSymbol, quote.toNetworkId)
    THEN /\ setCall(p, throwInTry(c, TypeError))
         /\ UNCHANGED payouts
    ELSE IF payoutMethod(quote.toAssetSymbol, quote.toNetworkId, needChainId) = "unsupported"
    THEN /\ setCall(p, throwInTry(c, UnsupportedDestError))
         /\ UNCHANGED payouts
    ELSE doPayout(p, payoutMethod(quote.toAssetSymbol, quote.toNetworkId, needChainId))

\* prisma.trade.update with only status and txHashFinalTransfer in data
tradeUpdateCompletedFinal(id, finalTxHash) ==
    trades' = [trades EXCEPT ![id] = [@ EXCEPT !.status = "COMPLETED",
                                               !.txHashFinalTransfer = finalTxHash]]

\* ------------------------------------------------------- executeNativeSwap
executeNativeSwap_start(p) ==
    \E q \in QuoteArgs : startCall(p, "executeNativeSwap", q)

executeNativeSwap_create(p) ==
    /\ calls[p].kind = "executeNativeSwap"
    /\ calls[p].pc = "create"
    /\ tradeCreate(p, "PENDING", "none", "relay", <<>>)
    /\ UNCHANGED <<now, quotes, quotingVars, contractCalls, payouts, notifications>>

\* EvmContractService.executeMetaTransaction: tx.wait(1) is not raced
\* against a timer, so a relayed transaction is mined, reverted, rejected, or
\* stays unmined with the call waiting for it
RelayOutcomes == {"mined", "reverted", "rejected", "unmined"}

executeNativeSwap_relay(p) ==
    LET c == calls[p]
        fromNetwork == getNetworkById(quotes[c.quoteId].fromNetworkId)
    IN
    /\ c.kind = "executeNativeSwap"
    /\ c.pc = "relay"
    /\ IF ~fromNetwork.hasChainId
       THEN /\ setCall(p, throwInTry(c, ForwarderError))
            /\ UNCHANGED contractCalls
       ELSE \E o \in RelayOutcomes :
              /\ contractCalls' = IF Submitted(o)
                    THEN contractCalls \cup {[proc |-> p, quoteId |-> c.quoteId,
                                              method |-> "forwarder.execute", outcome |-> o]}
                    ELSE contractCalls
              /\ IF o = "mined"
                 THEN setCall(p, [c EXCEPT !.pc = "payout", !.txHash = "txRelay"])
                 ELSE IF o = "unmined"
                 THEN setCall(p, awaitForever(c))
                 ELSE setCall(p, throwInTry(c,
                         <<"On-chain meta-transaction failed: ", "Unknown error">>))
    /\ UNCHANGED <<now, quotes, quotingVars, trades, payouts, notifications>>

executeNativeSwap_payout(p) ==
    /\ calls[p].kind = "executeNativeSwap"
    /\ calls[p].pc = "payout"
    /\ quotePayout(p, TRUE)
    /\ UNCHANGED <<now, quotes, quotingVars, trades, contractCalls, notifications>>

\* the final update is followed by return trade.id: nothing is broadcast
executeNativeSwap_update(p) ==
    LET c == calls[p] IN
    /\ c.kind = "executeNativeSwap"
    /\ c.pc = "update"
    /\ tradeUpdateCompleted(c.tradeId, c.txHash, c.finalTxHash)
    /\ setCall(p, finish(c, "returned", <<>>))
    /\ UNCHANGED <<now, quotes, quotingVars, contractCalls, payouts, notifications>>

\* ---------------------------------------------- executeNativeSwapFromEvent
executeNativeSwapFromEvent_start(p) ==
    \E q \in QuoteArgs : startCall(p, "executeNativeSwapFromEvent", q)

executeNativeSwapFromEvent_findQuote(p) ==
    LET c == calls[p] IN
    /\ c.kind = "executeNativeSwapFromEvent"
    /\ c.pc = "findQuote"
    /\ IF c.quoteId \notin DOMAIN quotes
       THEN setCall(p, finish(c, "returned", <<>>))
       ELSE setCall(p, [c EXCEPT !.pc = "findTrade"])
    /\ UNCH_db

executeNativeSwapFromEvent_findTrade(p) ==
    LET c == calls[p] IN
    /\ c.kind = "executeNativeSwapFromEvent"
    /\ c.pc = "findTrade"
    /\ IF findFirstTrade(c.quoteId)
       THEN setCall(p, finish(c, "returned", <<>>))
       ELSE setCall(p, [c EXCEPT !.pc = "create"])
    /\ UNCH_db

executeNativeSwapFromEvent_create(p) ==
    /\ calls[p].kind = "executeNativeSwapFromEvent"
    /\ calls[p].pc = "create"
    /\ tradeCreate(p, "PROCESSING", "txEvent", "payout", <<>>)
    /\ UNCHANGED <<now, quotes, quotingVars, contractCalls, payouts, notifications>>

executeNativeSwapFromEvent_payout(p) ==
    /\ calls[p].kind = "executeNativeSwapFromEvent"
    /\ calls[p].pc = "payout"
    /\ quotePayout(p, TRUE)
    /\ UNCHANGED <<now, quotes, quotingVars, trades, contractCalls, notifications>>

\* ------------------------------------------------------------ initiateSwap
initiateSwap_start(p) ==
    \E q \in QuoteArgs : startCall(p, "initiateSwap", q)

initiateSwap_findQuote(p) ==
    LET c == calls[p] IN
    /\ c.kind = "initiateSwap"
    /\ c.pc = "findQuote"
    /\ IF \/ c.quoteId \notin DOMAIN quotes
          \/ ~quotes[c.quoteId].depositAddress
          \/ ~quotes[c.quoteId].recipientAddress
          \/ quotes[c.quoteId].toNetworkId = "none"
       THEN setCall(p, finish(c, "returned", <<>>))
       ELSE setCall(p, [c EXCEPT !.pc = "create"])
    /\ UNCH_db

initiateSwap_create(p) ==
    /\ calls[p].kind = "initiateSwap"
    /\ calls[p].pc = "create"
    /\ tradeCreate(p, "PROCESSING", "txDeposit", "payout", <<>>)
    /\ UNCHANGED <<now, quotes, quotingVars, contractCalls, payouts, notifications>>

initiateSwap_payout(p) ==
    /\ calls[p].kind = "initiateSwap"
    /\ calls[p].pc = "payout"
    /\ quotePayout(p, FALSE)
    /\ UNCHANGED <<now, quotes, quotingVars, trades, contractCalls, notifications>>

\* ------------------- the tail shared by the two monitor-driven entry points
MonitorKinds == {"executeNativeSwapFromEvent", "initiateSwap"}

\* the COMPLETED update, then the TRADE_COMPLETED broadcast, still inside try
monitor_update(p) ==
    LET c == calls[p] IN
    /\ c.kind \in MonitorKinds
    /\ c.pc = "update"
    /\ tradeUpdateCompletedFinal(c.tradeId, c.finalTxHash)
    /\ \E ok \in BOOLEAN :
         /\ broadcast(completedMsg(c), ok)
         /\ IF ok THEN setCall(p, finish(c, "returned", <<>>))
                  ELSE setCall(p, [c EXCEPT !.pc = "catch", !.err = WebSocketError])
    /\ UNCHANGED <<now, quotes, quotingVars, contractCalls, payouts>>

\* catch: the FAILED update and the TRADE_FAILED broadcast; the error is
\* swallowed, unless the broadcast itself throws
monitor_catch(p) ==
    LET c == calls[p] IN
    /\ c.kind \in MonitorKinds
    /\ c.pc = "catch"
    /\ tradeUpdateFailed(c.tradeId, c.err)
    /\ \E ok \in BOOLEAN :
         /\ broadcast(failedMsg(c), ok)
         /\ IF ok THEN setCall(p, finish(c, "returned", c.err))
                  ELSE setCall(p, finish(c, "threw", WebSocketError))
    /\ UNCHANGED <<now, quotes, quotingVars, contractCalls, payouts>>

\* --------------------------------------------------------- specification
Next ==
    \/ Tick
    \/ \E p \in Procs :
         \/ executeTrade_start(p)
         \/ validateQuote_findQuote(p)
         \/ validateQuote_findTrade(p)
         \/ executeTrade_create(p)
         \/ executeTrade_contractCall(p)
         \/ executeTrade_payout(p)
         \/ executeTrade_update(p)
         \/ executeTrade_catch(p)
         \/ executeNativeSwap_start(p)
         \/ executeNativeSwap_create(p)
         \/ executeNativeSwap_relay(p)
         \/ executeNativeSwap_payout(p)
         \/ executeNativeSwap_update(p)
         \/ executeNativeSwapFromEvent_start(p)
         \/ executeNativeSwapFromEvent_findQuote(p)
         \/ executeNativeSwapFromEvent_findTrade(p)
         \/ executeNativeSwapFromEvent_create(p)
         \/ executeNativeSwapFromEvent_payout(p)
         \/ initiateSwap_start(p)
         \/ initiateSwap_findQuote(p)
         \/ initiateSwap_create(p)
         \/ initiateSwap_payout(p)
         \/ monitor_update(p)
         \/ monitor_catch(p)

Spec == Init /\ [][Next]_vars

\* the event loop runs every continuation whose promise has settled
SpecLive == Spec /\ WF_vars(Next)

\* ================================================================ quoting
\* QuotingService.getQuote with the BitcoinHDWalletService it owns.

\* what the quoting steps leave alone
QuotingFrame ==
    UNCHANGED <<now, trades, calls, contractCalls, payouts, notifications,
                monitorWorker, explorer, swaps, pricing, workerVars>>

InvalidSourceNetworkError == <<"Invalid source network ID: ">>
MarketError == <<"Market is not supported.">>
LiquidityError == <<"Not enough liquidity in the market to fill the order.">>
UnsupportedSourceError == <<"Swap is not supported.">>
AssetNotSupportedError == <<"Asset not supported.">>
DestinationMandatoryError == <<"toNetworkId and recipientAddress are mandatory for Bitcoin destination.">>
UnsupportedDestinationTypeError == <<"Unsupported destination asset type: ">>
PersistError == <<"Failed to persist the quote. Please try again.">>
WalletStateError == <<"Database error while loading wallet state.">>
CursorWriteError == <<"PrismaClientKnownRequestError: hdWalletState.upsert">>
FeeLookupError == <<"fee lookup failed">>

ValidationErrors == {AssetNotSupportedError, DestinationMandatoryError}

standardPairs ==
    { <<"BTC", "USDT">>, <<"ETH", "USDT">>, <<"BTC", "IRT">>,
      <<"BNB", "USDT">>, <<"USDT", "IRT">>, <<"ETH", "BTC">> }

\* determineSymbolAndDirection: the reverse or the forward symbol is a pair
marketSupported(from, to) ==
    <<to, from>> \in standardPairs \/ <<from, to>> \in standardPairs

\* AssetRegistry.getAssetDeployments: the networks of a symbol, in file order
getAssetDeployments(symbol) ==
    IF symbol = "BTC" THEN <<"bitcoin_testnet", "sepolia">>
    ELSE IF symbol = "ETH" THEN <<"sepolia">>
    ELSE <<>>

\* the requests of the API: a Bitcoin-origin swap to ETH, to an asset with no
\* deployment, to BTC without and with a destination, an EVM-origin swap,
\* an unknown source network and a pair with no market
Requests ==
    { [fromAssetSymbol |-> "BTC", fromNetworkId |-> "bitcoin_testnet",
       toAssetSymbol |-> "ETH", hasDestination |-> FALSE],
      [fromAssetSymbol |-> "BTC", fromNetworkId |-> "bitcoin_testnet",
       toAssetSymbol |-> "USDT", hasDestination |-> FALSE],
      [fromAssetSymbol |-> "ETH", fromNetworkId |-> "bitcoin_testnet",
       toAssetSymbol |-> "BTC", hasDestination |-> FALSE],
      [fromAssetSymbol |-> "ETH", fromNetworkId |-> "bitcoin_testnet",
       toAssetSymbol |-> "BTC", hasDestination |-> TRUE],
      [fromAssetSymbol |-> "ETH", fromNetworkId |-> "sepolia",
       toAssetSymbol |-> "BTC", hasDestination |-> TRUE],
      [fromAssetSymbol |-> "ETH", fromNetworkId |-> "ghostnet",
       toAssetSymbol |-> "BTC", hasDestination |-> TRUE],
      [fromAssetSymbol |-> "BTC", fromNetworkId |-> "sepolia",
       toAssetSymbol |-> "BTC", hasDestination |-> TRUE] }

\* the process is alive: an unhandled rejection may have ended it
Running == bitcoinWalletService.load # "exited"

quoteThrew(c, err) ==
    [c EXCEPT !.pc = "done", !.outcome = "threw", !.err = err,
              !.request = NoRequest, !.expiresAt = 0]

quoteReturned(c) ==
    [c EXCEPT !.pc = "done", !.outcome = "returned",
              !.request = NoRequest, !.expiresAt = 0]

\* bitcoin.payments.p2wpkh of the child key at the index
Address(index) == <<"p2wpkh", index>>

\* the checks of buildFinalResponse on the destination: the error, or <<>>
destinationCheck(req) ==
    LET deps == getAssetDeployments(req.toAssetSymbol) IN
    IF Len(deps) = 0 THEN AssetNotSupportedError
    ELSE LET targetNetwork == getNetworkById(deps[1]) IN
         IF targetNetwork.networkType = "EVM" THEN <<>>
         ELSE IF targetNetwork.networkType = "BITCOIN"
              THEN IF ~req.hasDestination THEN DestinationMandatoryError ELSE <<>>
         ELSE UnsupportedDestinationTypeError

\* buildFinalResponse from the destination checks up to the transaction
afterAddress(c) ==
    LET err == destinationCheck(c.request) IN
    IF err # <<>> THEN quoteThrew(c, err) ELSE [c EXCEPT !.pc = "transaction"]

\* the rejected load leaves the constructor's promise unhandled: the process
\* ends or goes on, as the runtime is configured
loadRejected ==
    \E exits \in BOOLEAN :
       bitcoinWalletService' =
           [bitcoinWalletService EXCEPT !.load = IF exits THEN "exited" ELSE "failed"]

\* loadNextAddressIndexFromDB: findUnique and what follows it
loadNextAddressIndexFromDB_findUnique ==
    /\ bitcoinWalletService.load = "pending"
    /\ \/ loadRejected
       \/ /\ hdWalletState.exists
          /\ bitcoinWalletService' =
                 [bitcoinWalletService EXCEPT !.nextAddressIndex = hdWalletState.nextIndex,
                                              !.load = "loaded"]
       \/ /\ ~hdWalletState.exists
          /\ bitcoinWalletService' = [bitcoinWalletService EXCEPT !.load = "creating"]
    /\ UNCHANGED <<hdWalletState, quoteCalls, bitcoinDepositAddress, quotes>>
    /\ QuotingFrame

\* loadNextAddressIndexFromDB: create of the row with nextIndex 0
loadNextAddressIndexFromDB_create ==
    /\ bitcoinWalletService.load = "creating"
    /\ \/ /\ loadRejected
          /\ UNCHANGED hdWalletState
       \/ /\ ~hdWalletState.exists
          /\ hdWalletState' = [exists |-> TRUE, nextIndex |-> 0]
          /\ bitcoinWalletService' = [bitcoinWalletService EXCEPT !.load = "loaded"]
    /\ UNCHANGED <<quoteCalls, bitcoinDepositAddress, quotes>>
    /\ QuotingFrame

\* getQuote up to getOrderBooks
getQuote_start(p) ==
    /\ Running
    /\ quoteCalls[p].pc = "idle"
    /\ p > 1 => quoteCalls[p - 1].pc # "idle"
    /\ \E req \in Requests :
          quoteCalls' = [quoteCalls EXCEPT ![p] =
              IF getNetworkById(req.fromNetworkId) = Undefined
              THEN quoteThrew(IdleQuoteCall, InvalidSourceNetworkError)
              ELSE IF ~marketSupported(req.fromAssetSymbol, req.toAssetSymbol)
              THEN quoteThrew(IdleQuoteCall, MarketError)
              ELSE [IdleQuoteCall EXCEPT !.pc = "orderBooks", !.request = req]]
    /\ UNCHANGED <<hdWalletState, bitcoinWalletService, bitcoinDepositAddress, quotes>>
    /\ QuotingFrame

\* getQuote from the order books to buildFinalResponse, which computes
\* expiresAt first; for a Bitcoin source getNewAddress runs up to its await
\* of saveNextAddressIndexToDB
getQuote_orderBooks(p) ==
    LET c == [quoteCalls[p] EXCEPT !.expiresAt = now + ExpiresAt]
        fromNetwork == getNetworkById(c.request.fromNetworkId) IN
    /\ Running
    /\ c.pc = "orderBooks"
    /\ \E liquid \in BOOLEAN :
          quoteCalls' = [quoteCalls EXCEPT ![p] =
              IF ~liquid THEN quoteThrew(c, LiquidityError)
              ELSE IF fromNetwork.networkType = "EVM" /\ fromNetwork.hasChainId
              THEN afterAddress(c)
              ELSE IF fromNetwork.networkType = "BITCOIN"
              THEN [c EXCEPT !.pc = "saveIndex",
                             !.index = bitcoinWalletService.nextAddressIndex,
                             !.loadAtRead = bitcoinWalletService.load]
              ELSE quoteThrew(c, UnsupportedSourceError)]
    /\ UNCHANGED <<hdWalletState, bitcoinWalletService, bitcoinDepositAddress, quotes>>
    /\ QuotingFrame

\* getNewAddress from the upsert of index + 1 to its return, and
\* buildFinalResponse up to the transaction
getNewAddress_save(p) ==
    LET c == quoteCalls[p]
        newIndex == c.index + 1 IN
    /\ Running
    /\ c.pc = "saveIndex"
    /\ \/ /\ hdWalletState' = [exists |-> TRUE, nextIndex |-> newIndex]
          /\ bitcoinWalletService' =
                 [bitcoinWalletService EXCEPT !.nextAddressIndex = newIndex]
          /\ quoteCalls' = [quoteCalls EXCEPT ![p] =
                                afterAddress([c EXCEPT !.hasAddress = TRUE])]
       \/ /\ quoteCalls' = [quoteCalls EXCEPT ![p] = quoteThrew(c, CursorWriteError)]
          /\ UNCHANGED <<hdWalletState, bitcoinWalletService>>
    /\ UNCHANGED <<bitcoinDepositAddress, quotes>>
    /\ QuotingFrame

\* two creates that are not wrapped in a transaction
transaction_unwrapped(written, failed) == written

\* prisma.$transaction: every write of the callback, or none
transaction(written, failed) == IF failed THEN {} ELSE written

\* CREATE UNIQUE INDEX "BitcoinDepositAddress_address_key"
BitcoinDepositAddress_address_key(address) ==
    \E i \in DOMAIN bitcoinDepositAddress : bitcoinDepositAddress[i].address = address

\* createdAt is the DEFAULT CURRENT_TIMESTAMP of the insert
NewQuote(req, expiresAt) ==
    [ createdAt |-> now, expiresAt |-> expiresAt,
      fromNetworkId |-> req.fromNetworkId,
      toAssetSymbol |-> req.toAssetSymbol,
      toNetworkId |-> IF getNetworkById(getAssetDeployments(req.toAssetSymbol)[1]).networkType = "EVM"
                      THEN getAssetDeployments(req.toAssetSymbol)[1]
                      ELSE "bitcoin_testnet",
      recipientAddress |-> req.hasDestination ]

NewDepositAddress(index, q) ==
    [ address |-> Address(index), quoteId |-> q, status |-> "PENDING_DEPOSIT",
      receivedTxHash |-> "none", receivedAmount |-> 0 ]

\* the destination fee lookup and the transaction that creates the Quote and,
\* for a Bitcoin source, its BitcoinDepositAddress
getQuote_transaction(p) ==
    LET c == quoteCalls[p] IN
    /\ Running
    /\ c.pc = "transaction"
    /\ \E failAt \in {"none", "fee", "quote", "address"} :
          /\ failAt = "address" => c.hasAddress
          /\ (failAt = "none" /\ c.hasAddress) =>
                 ~BitcoinDepositAddress_address_key(Address(c.index))
          /\ LET written == IF failAt \in {"fee", "quote"} THEN {}
                            ELSE IF failAt = "address" THEN {"quote"}
                            ELSE {"quote"} \cup (IF c.hasAddress THEN {"address"} ELSE {})
                 persisted == transaction(written, failAt # "none")
             IN /\ quotes' = IF "quote" \in persisted
                             THEN quotes @@ (p :> NewQuote(c.request, c.expiresAt))
                             ELSE quotes
                /\ bitcoinDepositAddress' =
                       IF "address" \in persisted
                       THEN bitcoinDepositAddress @@ (p :> NewDepositAddress(c.index, p))
                       ELSE bitcoinDepositAddress
                /\ quoteCalls' = [quoteCalls EXCEPT ![p] =
                       IF failAt = "none" THEN quoteReturned(c)
                       ELSE IF failAt = "fee" THEN quoteThrew(c, FeeLookupError)
                       ELSE quoteThrew(c, PersistError)]
    /\ UNCHANGED <<hdWalletState, bitcoinWalletService>>
    /\ QuotingFrame

WalletRows == {NoWalletRow} \cup {[exists |-> TRUE, nextIndex |-> n] : n \in 0..MaxStart}

\* the service has just been constructed over a database that earlier runs
\* may have written
InitQuote ==
    /\ now = 0
    /\ quotes = <<>>
    /\ trades = <<>>
    /\ calls = [p \in Procs |-> IdleCall]
    /\ contractCalls = {}
    /\ payouts = {}
    /\ notifications = {}
    /\ hdWalletState \in WalletRows
    /\ bitcoinWalletService = NewWallet
    /\ quoteCalls = [p \in QuoteProcs |-> IdleQuoteCall]
    /\ bitcoinDepositAddress = <<>>
    /\ monitorWorker = NewMonitor
    /\ explorer = <<>>
    /\ swaps = {}
    /\ pricing = NoPricing
    /\ WorkersAtRest

NextQuote ==
    \/ loadNextAddressIndexFromDB_findUnique
    \/ loadNextAddressIndexFromDB_create
    \/ \E p \in QuoteProcs :
         \/ getQuote_start(p)
         \/ getQuote_orderBooks(p)
         \/ getNewAddress_save(p)
         \/ getQuote_transaction(p)

SpecQuote == InitQuote /\ [][NextQuote]_vars

\* the service is quoting for one caller: the other calls have been rejected
InitExpiry ==
    /\ now = 0
    /\ quotes = <<>>
    /\ trades = <<>>
    /\ calls = [p \in Procs |-> IdleCall]
    /\ contractCalls = {}
    /\ payouts = {}
    /\ notifications = {}
    /\ hdWalletState \in WalletRows
    /\ bitcoinWalletService = NewWallet
    /\ quoteCalls = [p \in QuoteProcs |->
                        IF p = 1 THEN IdleQuoteCall
                        ELSE quoteThrew(IdleQuoteCall, InvalidSourceNetworkError)]
    /\ bitcoinDepositAddress = <<>>
    /\ monitorWorker = NewMonitor
    /\ explorer = <<>>
    /\ swaps = {}
    /\ pricing = NoPricing
    /\ WorkersAtRest

\* getQuote while the wall clock advances
NextExpiry ==
    \/ Tick
    \/ loadNextAddressIndexFromDB_findUnique
    \/ loadNextAddressIndexFromDB_create
    \/ \E p \in QuoteProcs :
         \/ getQuote_start(p)
         \/ getQuote_orderBooks(p)
         \/ getNewAddress_save(p)
         \/ getQuote_transaction(p)

SpecExpiry == InitExpiry /\ [][NextExpiry]_vars

\* ========================================================= deposit monitor
\* DepositMonitorWorker over the addresses getQuote has persisted.

MonitorFrame ==
    UNCHANGED <<now, quotes, trades, calls, contractCalls, payouts,
                hdWalletState, bitcoinWalletService, quoteCalls, pricing, workerVars>>

\* the confirmed transactions that may pay a deposit address
TxIds == {"txA", "txB"}

\* calculateReceivedAmount: the satoshis the outputs of tx pay to the address
calculateReceivedAmount(tx) == IF tx = "txA" THEN 1 ELSE 2

runTo(c, r) == [monitorWorker EXCEPT !.runs[c] = r]

\* the finally block of checkPendingDeposits
finallyUnlock(c, pc) ==
    [monitorWorker EXCEPT !.isChecking = FALSE, !.runs[c] = [IdleRun EXCEPT !.pc = pc]]

\* processAddress has returned: the loop takes the next address or ends
nextAddress(c) ==
    LET r == monitorWorker.runs[c] IN
    IF Len(r.pending) > 1
    THEN runTo(c, [r EXCEPT !.pc = "fetch", !.pending = Tail(r.pending), !.tx = "none"])
    ELSE finallyUnlock(c, "done")

\* a worker without its isChecking lock
alreadyChecking_never == FALSE

\* if (this.isChecking)
alreadyChecking == monitorWorker.isChecking

\* a findMany without its where clause
pendingFilter_any(row) == TRUE

\* where: { status: 'PENDING_DEPOSIT' }
pendingFilter(row) == row.status = "PENDING_DEPOSIT"

\* prisma.bitcoinDepositAddress.findMany: the ids of the rows it returns
findManyPending ==
    SelectSeq([i \in 1..Len(bitcoinDepositAddress) |-> i],
              LAMBDA i : pendingFilter(bitcoinDepositAddress[i]))

depositConfirmedMsg(row, tx) ==
    [ type |-> "DEPOSIT_CONFIRMED", quoteId |-> row.quoteId, txHash |-> tx,
      amount |-> calculateReceivedAmount(tx) ]

\* a transaction paying deposit address a is confirmed on the chain
Deposit(a, tx) ==
    /\ tx \notin explorer[a]
    /\ explorer' = [explorer EXCEPT ![a] = @ \cup {tx}]
    /\ UNCHANGED <<bitcoinDepositAddress, monitorWorker, swaps, notifications>>
    /\ MonitorFrame

\* start() or the interval timer calls checkPendingDeposits
checkPendingDeposits_start(c) ==
    /\ monitorWorker.runs[c].pc = "idle"
    /\ c > 1 => monitorWorker.runs[c - 1].pc # "idle"
    /\ IF alreadyChecking
       THEN monitorWorker' = runTo(c, [IdleRun EXCEPT !.pc = "skipped"])
       ELSE monitorWorker' = [monitorWorker EXCEPT !.isChecking = TRUE,
                                                   !.runs[c] = [IdleRun EXCEPT !.pc = "findMany"]]
    /\ UNCHANGED <<bitcoinDepositAddress, explorer, swaps, notifications>>
    /\ MonitorFrame

\* the findMany resolves, or rejects into the catch block
checkPendingDeposits_findMany(c) ==
    /\ monitorWorker.runs[c].pc = "findMany"
    /\ \/ monitorWorker' = finallyUnlock(c, "done")
       \/ /\ findManyPending # <<>>
          /\ monitorWorker' = runTo(c, [IdleRun EXCEPT !.pc = "fetch",
                                                       !.pending = findManyPending])
    /\ UNCHANGED <<bitcoinDepositAddress, explorer, swaps, notifications>>
    /\ MonitorFrame

\* processAddress: the explorer's reply, the qualifying transaction it holds
\* and the DEPOSIT_CONFIRMED broadcast
processAddress_fetch(c) ==
    LET r == monitorWorker.runs[c]
        a == Head(r.pending) IN
    /\ r.pc = "fetch"
    /\ \/ /\ monitorWorker' = nextAddress(c)
          /\ UNCHANGED notifications
       \/ \E tx \in explorer[a], ok \in BOOLEAN :
             /\ broadcast(depositConfirmedMsg(bitcoinDepositAddress[a], tx), ok)
             /\ monitorWorker' = IF ok THEN runTo(c, [r EXCEPT !.pc = "update", !.tx = tx])
                                 ELSE nextAddress(c)
    /\ UNCHANGED <<bitcoinDepositAddress, explorer, swaps>>
    /\ MonitorFrame

\* processAddress: the update to CONFIRMED, then the call of initiateSwap
processAddress_update(c) ==
    LET r == monitorWorker.runs[c]
        a == Head(r.pending) IN
    /\ r.pc = "update"
    /\ \/ /\ bitcoinDepositAddress' =
                 [bitcoinDepositAddress EXCEPT ![a] =
                     [@ EXCEPT !.status = "CONFIRMED", !.receivedTxHash = r.tx,
                               !.receivedAmount = calculateReceivedAmount(r.tx)]]
          /\ swaps' = swaps \cup {[ run |-> c, quoteId |-> bitcoinDepositAddress[a].quoteId,
                                    status |-> bitcoinDepositAddress'[a].status ]}
          /\ monitorWorker' = runTo(c, [r EXCEPT !.pc = "initiateSwap"])
       \/ /\ monitorWorker' = nextAddress(c)
          /\ UNCHANGED <<bitcoinDepositAddress, swaps>>
    /\ UNCHANGED <<explorer, notifications>>
    /\ MonitorFrame

\* processAddress: the awaited initiateSwap settles
processAddress_initiateSwap(c) ==
    /\ monitorWorker.runs[c].pc = "initiateSwap"
    /\ monitorWorker' = nextAddress(c)
    /\ UNCHANGED <<bitcoinDepositAddress, explorer, swaps, notifications>>
    /\ MonitorFrame

\* the Bitcoin-origin request whose quotes the monitor watches
DepositRequest ==
    [ fromAssetSymbol |-> "BTC", fromNetworkId |-> "bitcoin_testnet",
      toAssetSymbol |-> "ETH", hasDestination |-> FALSE ]

\* the server has started: getQuote has persisted Bitcoin-origin quotes with
\* their deposit addresses, none of them paid yet
InitMonitor ==
    /\ now = 0
    /\ quotes = [a \in DepositIds |-> NewQuote(DepositRequest, now + ExpiresAt)]
    /\ trades = <<>>
    /\ calls = [p \in Procs |-> IdleCall]
    /\ contractCalls = {}
    /\ payouts = {}
    /\ notifications = {}
    /\ hdWalletState = [exists |-> TRUE, nextIndex |-> NumDeposits]
    /\ bitcoinWalletService = NewWallet
    /\ quoteCalls = [p \in QuoteProcs |-> IdleQuoteCall]
    /\ bitcoinDepositAddress = [a \in DepositIds |-> NewDepositAddress(a - 1, a)]
    /\ monitorWorker = NewMonitor
    /\ explorer = [a \in DepositIds |-> {}]
    /\ swaps = {}
    /\ pricing = NoPricing
    /\ WorkersAtRest

NextMonitor ==
    \/ \E a \in DepositIds, tx \in TxIds : Deposit(a, tx)
    \/ \E c \in Cycles :
         \/ checkPendingDeposits_start(c)
         \/ checkPendingDeposits_findMany(c)
         \/ processAddress_fetch(c)
         \/ processAddress_update(c)
         \/ processAddress_initiateSwap(c)

SpecMonitor == InitMonitor /\ [][NextMonitor]_vars

\* ================================================================ pricing
\* The amounts getQuote computes and stores, counted in tenths of the eighth
\* decimal of the asset they are expressed in.

Precision == 10

\* Number.prototype.toFixed(8): the nearest multiple of the eighth decimal
toFixed8(x) == ((x + (Precision \div 2)) \div Precision) * Precision

\* what the order book, the FeeService, the price map and the fee estimate
\* of the destination give: sourceGasCost is in the gas asset of the source
\* network, rate converts that asset to the destination asset, destGasCost is
\* the destination transfer or payout fee in the destination asset
PricingInputs ==
    [ priced : {FALSE}, sent : {FALSE}, actualGasCost : {0}, finalAmountToSend : {0},
      grossReceiveAmount : {30, 1000, 1004}, exchangeFee : {0, 13}, ourFee : {0, 20},
      sourceGasCost : {0, 10}, rate : {1, 2}, destGasCost : {0, 4, 30} ]

\* convertFeesToToAsset
convertFeesToToAsset(in) == in.exchangeFee + in.ourFee + in.rate * in.sourceGasCost

\* getQuote: finalAmountBase
finalAmountBase(in) == in.grossReceiveAmount - convertFeesToToAsset(in)

\* buildEvmReceivingOptions / the Bitcoin branch of buildFinalResponse
finalAmount(in) == toFixed8(finalAmountBase(in) - in.destGasCost)

\* the amounts of tx.quote.create
pricedQuote(in) ==
    [ priced |-> TRUE, sent |-> FALSE, actualGasCost |-> 0, finalAmountToSend |-> 0,
      grossReceiveAmount |-> in.grossReceiveAmount,
      finalReceiveAmount |-> finalAmount(in),
      exchangeFee |-> in.exchangeFee,
      ourFee |-> in.ourFee,
      gasCosts |-> in.sourceGasCost,
      rate |-> in.rate, destGasCost |-> in.destGasCost ]

\* getQuote prices the request and persists the Quote
getQuote_price ==
    /\ ~pricing.priced
    /\ pricing' = pricedQuote(pricing)
    /\ UNCHANGED <<now, quotes, trades, calls, contractCalls, payouts, notifications,
                   hdWalletState, bitcoinWalletService, quoteCalls,
                   bitcoinDepositAddress, monitorWorker, explorer, swaps, workerVars>>

\* receipt.gasUsed * receipt.gasPrice, in the gas asset of the source network
ActualGasCosts == {0, 10, 12}

\* executeTrade: the amount handed to the payout, from the stored Quote and
\* the gas cost of the receipt converted by convertAmount
finalAmountToSend(q, actualGasCost) ==
    LET grossReceiveAmount == q.finalReceiveAmount
        sourceGasCostInToAsset == q.rate * actualGasCost
    IN  grossReceiveAmount - q.exchangeFee - q.ourFee - sourceGasCostInToAsset

\* executeTrade computes the payout amount after the contract call was mined
executeTrade_amount ==
    /\ pricing.priced
    /\ ~pricing.sent
    /\ \E g \in ActualGasCosts :
         pricing' = [pricing EXCEPT !.sent = TRUE, !.actualGasCost = g,
                                    !.finalAmountToSend = finalAmountToSend(pricing, g)]
    /\ UNCHANGED <<now, quotes, trades, calls, contractCalls, payouts, notifications,
                   hdWalletState, bitcoinWalletService, quoteCalls,
                   bitcoinDepositAddress, monitorWorker, explorer, swaps, workerVars>>

InitPricing ==
    /\ now = 0
    /\ quotes = <<>>
    /\ trades = <<>>
    /\ calls = [p \in Procs |-> IdleCall]
    /\ contractCalls = {}
    /\ payouts = {}
    /\ notifications = {}
    /\ hdWalletState = NoWalletRow
    /\ bitcoinWalletService = NewWallet
    /\ quoteCalls = [p \in QuoteProcs |-> IdleQuoteCall]
    /\ bitcoinDepositAddress = <<>>
    /\ monitorWorker = NewMonitor
    /\ explorer = <<>>
    /\ swaps = {}
    /\ pricing \in PricingInputs
    /\ WorkersAtRest

NextPricing ==
    \/ getQuote_price
    \/ executeTrade_amount

SpecPricing == InitPricing /\ [][NextPricing]_vars


\* ========================================================= bitcoin payout
\* BitcoinPayoutService.sendBitcoin: one call, split at its awaits (the UTXO
\* fetch, the fee-rate fetch, the broadcast); coin selection, the outputs and
\* the signing are the synchronous code between the second and third await.
MaxUtxos == 2

\* values of the treasury's UTXOs, in satoshi
UtxoValues == {200, 1000}

\* Math.round(amountInBtc * 1e8) for the requested amounts
Amounts == {312, 313, 314, 900, 1100}

\* halfHourFee, sats/vB
FeeRates == {1, 2}

DustThreshold == 546

NoSpendableUtxosError == <<"Payout wallet has no spendable UTXOs.">>

InsufficientFundsError == <<"Insufficient funds.">>

ExplorerError == <<"AxiosError">>

BroadcastError == <<"Failed to broadcast Bitcoin transaction">>

PayoutFrame ==
    UNCHANGED <<now, quotes, trades, calls, contractCalls, payouts, notifications,
                hdWalletState, bitcoinWalletService, quoteCalls,
                bitcoinDepositAddress, monitorWorker, explorer, swaps, pricing,
                pollingWorker, chain, serviceVars>>

estimateTxSize(inputCount, outputCount) ==
    (inputCount * 68) + (outputCount * 31) + 11

\* the value of the first k UTXOs
RECURSIVE SumTo(_, _)
SumTo(utxos, k) == IF k = 0 THEN 0 ELSE SumTo(utxos, k - 1) + utxos[k]

\* the loop's exit test, after an input was added
covers_ignoringFee(totalInputSatoshi, amountInSatoshi, inputCount, feeRate) ==
    totalInputSatoshi >= amountInSatoshi

covers(totalInputSatoshi, amountInSatoshi, inputCount, feeRate) ==
    totalInputSatoshi >=
        amountInSatoshi + estimateTxSize(inputCount, 2) * feeRate

\* the selection loop from input k on: the number of inputs in the psbt when
\* the loop ends
RECURSIVE selectInputs(_, _, _, _)
selectInputs(utxos, k, amountInSatoshi, feeRate) ==
    IF \/ k = Len(utxos)
       \/ covers(SumTo(utxos, k), amountInSatoshi, k, feeRate)
    THEN k
    ELSE selectInputs(utxos, k + 1, amountInSatoshi, feeRate)

\* the check after the loop
insufficient_never(totalInputSatoshi, amountInSatoshi, inputCount, feeRate) ==
    FALSE

insufficient(totalInputSatoshi, amountInSatoshi, inputCount, feeRate) ==
    totalInputSatoshi <
        amountInSatoshi + estimateTxSize(inputCount, 2) * feeRate

\* whether the remainder gets an output of its own
changeOutput(changeAmount) == changeAmount > DustThreshold

payoutThrew(b, e) == [b EXCEPT !.pc = "done", !.err = e]

sendBitcoin_fetchUtxos ==
    /\ bitcoinPayout.pc = "start"
    /\ \E ok \in BOOLEAN :
        bitcoinPayout' =
            IF ~ok THEN payoutThrew(bitcoinPayout, ExplorerError)
            ELSE IF Len(bitcoinPayout.utxos) = 0
            THEN payoutThrew(bitcoinPayout, NoSpendableUtxosError)
            ELSE [bitcoinPayout EXCEPT !.pc = "feeRate"]
    /\ PayoutFrame

sendBitcoin_fetchFeeRate ==
    /\ bitcoinPayout.pc = "feeRate"
    /\ \E ok \in BOOLEAN :
        LET b == bitcoinPayout
            n == selectInputs(b.utxos, 1, b.amountInSatoshi, b.feeRate)
            total == SumTo(b.utxos, n)
            finalEstimatedFee == estimateTxSize(n, 2) * b.feeRate
            selected == [b EXCEPT !.inputCount = n, !.totalInputSatoshi = total]
            changeAmount == total - b.amountInSatoshi - finalEstimatedFee
        IN  bitcoinPayout' =
                IF ~ok THEN payoutThrew(b, ExplorerError)
                ELSE IF insufficient(total, b.amountInSatoshi, n, b.feeRate)
                THEN payoutThrew(selected, InsufficientFundsError)
                ELSE [selected EXCEPT !.pc = "broadcast",
                                      !.outputs = IF changeOutput(changeAmount)
                                                  THEN <<b.amountInSatoshi, changeAmount>>
                                                  ELSE <<b.amountInSatoshi>>,
                                      !.signed = TRUE]
    /\ PayoutFrame

sendBitcoin_broadcast ==
    /\ bitcoinPayout.pc = "broadcast"
    /\ \E ok \in BOOLEAN :
        bitcoinPayout' =
            IF ok THEN [bitcoinPayout EXCEPT !.pc = "done", !.broadcast = TRUE]
            ELSE payoutThrew(bitcoinPayout, BroadcastError)
    /\ PayoutFrame

UtxoLists == UNION {[1..n -> UtxoValues] : n \in 0..MaxUtxos}

PayoutInputs ==
    {[pc |-> "start", utxos |-> u, amountInSatoshi |-> a, feeRate |-> r,
      inputCount |-> 0, totalInputSatoshi |-> 0, outputs |-> <<>>,
      signed |-> FALSE, broadcast |-> FALSE, err |-> <<>>] :
        u \in UtxoLists, a \in Amounts, r \in FeeRates}

InitPayout ==
    /\ now = 0
    /\ quotes = <<>>
    /\ trades = <<>>
    /\ calls = [p \in Procs |-> IdleCall]
    /\ contractCalls = {}
    /\ payouts = {}
    /\ notifications = {}
    /\ hdWalletState = NoWalletRow
    /\ bitcoinWalletService = NewWallet
    /\ quoteCalls = [p \in QuoteProcs |-> IdleQuoteCall]
    /\ bitcoinDepositAddress = <<>>
    /\ monitorWorker = NewMonitor
    /\ explorer = <<>>
    /\ swaps = {}
    /\ pricing = NoPricing
    /\ bitcoinPayout \in PayoutInputs
    /\ pollingWorker = NoPoller
    /\ chain = NoChain
    /\ ServicesAtRest

NextPayout ==
    \/ sendBitcoin_fetchUtxos
    \/ sendBitcoin_fetchFeeRate
    \/ sendBitcoin_broadcast

SpecPayout == InitPayout /\ [][NextPayout]_vars


\* ========================================================== evm polling
\* EvmPollingWorker over one EVM network with a settlement contract: each
\* cycle is split at its awaits (getBlockNumber, queryFilter, one
\* executeNativeSwapFromEvent per event).
MaxPolls == 3

\* the blocks the chain grows by while the worker is observed
MaxMined == 2

\* lastCheckedBlock.get(chainId) || (currentBlock - 10)
Lookback == 10

\* Math.min(currentBlock, fromBlock + 100)
RangeCap == 100

Polls == 1..MaxPolls

IdlePoll ==
    [pc |-> "idle", fromBlock |-> 0, toBlock |-> 0, events |-> <<>>, result |-> "none"]

\* the worker after start() was called; lastCheckedBlock 0 is the Map without
\* an entry for the network (undefined and 0 are both falsy at the || )
NewPoller ==
    [started |-> TRUE, isChecking |-> FALSE, lastCheckedBlock |-> 0,
     runs |-> [c \in Polls |-> IdlePoll], passed |-> {}]

PollerFrame ==
    UNCHANGED <<now, quotes, trades, calls, contractCalls, payouts, notifications,
                hdWalletState, bitcoinWalletService, quoteCalls,
                bitcoinDepositAddress, monitorWorker, explorer, swaps, pricing,
                bitcoinPayout, serviceVars>>

Min(a, b) == IF a < b THEN a ELSE b

\* blocks without a NativeTradeInitiated event are mined
Mine(n) ==
    /\ pollingWorker.started
    /\ chain.mined < MaxMined
    /\ chain' = [chain EXCEPT !.head = @ + n, !.mined = @ + 1]
    /\ UNCHANGED pollingWorker
    /\ PollerFrame

\* a block holding one NativeTradeInitiated event is mined
Emit ==
    /\ pollingWorker.started
    /\ chain.mined < MaxMined
    /\ chain' = [chain EXCEPT !.head = @ + 1, !.mined = @ + 1,
                              !.events = @ \cup {chain.head + 1}]
    /\ UNCHANGED pollingWorker
    /\ PollerFrame

pollTo(c, r) == [pollingWorker EXCEPT !.runs[c] = r]

\* pollNetworkForEvents returns or its catch block has logged the error; the
\* loop over the networks ends and the finally block of pollForAllNetworks runs
pollEnds(w, c, r, result) ==
    [w EXCEPT !.isChecking = FALSE,
              !.runs[c] = [r EXCEPT !.pc = "done", !.result = result]]

\* a worker without its isChecking guard
alreadyPolling_never == FALSE

\* if (this.isChecking) return;
alreadyPolling == pollingWorker.isChecking

\* a range without its cap
rangeEnd_uncapped(currentBlock, fromBlock) == currentBlock

rangeEnd(currentBlock, fromBlock) == Min(currentBlock, fromBlock + RangeCap)

\* an exception skips this.lastCheckedBlock.set(...)
cursorAfterFailure(w, r) == w

\* this.lastCheckedBlock.set(network.chainId, toBlock)
cursorSet(w, r) == [w EXCEPT !.lastCheckedBlock = r.toBlock]

RECURSIVE Ascending(_)
Ascending(S) ==
    IF S = {} THEN <<>>
    ELSE LET m == CHOOSE x \in S : \A y \in S : x <= y
         IN  <<m>> \o Ascending(S \ {m})

\* contract.queryFilter("NativeTradeInitiated", from, to): the events of the
\* blocks from..to, in block order
queryFilter(from, to) == Ascending({b \in chain.events : from <= b /\ b <= to})

\* start() or the interval timer calls pollForAllNetworks
pollForAllNetworks_start(c) ==
    /\ pollingWorker.started
    /\ pollingWorker.runs[c].pc = "idle"
    /\ c > 1 => pollingWorker.runs[c - 1].pc # "idle"
    /\ IF alreadyPolling
       THEN pollingWorker' = pollTo(c, [IdlePoll EXCEPT !.pc = "skipped"])
       ELSE pollingWorker' = [pollingWorker EXCEPT !.isChecking = TRUE,
                                                   !.runs[c] = [IdlePoll EXCEPT !.pc = "getBlockNumber"]]
    /\ UNCHANGED chain
    /\ PollerFrame

\* provider.getBlockNumber() resolves or rejects; the range is computed
pollNetworkForEvents_getBlockNumber(c) ==
    LET r == pollingWorker.runs[c]
        currentBlock == chain.head
        fromBlock == IF pollingWorker.lastCheckedBlock # 0
                     THEN pollingWorker.lastCheckedBlock
                     ELSE currentBlock - Lookback
    IN
    /\ pollingWorker.started
    /\ r.pc = "getBlockNumber"
    /\ \E ok \in BOOLEAN :
         pollingWorker' =
            IF ~ok THEN pollEnds(pollingWorker, c, r, "failed")
            ELSE IF fromBlock >= currentBlock
            THEN pollEnds(pollingWorker, c, r, "noNewBlocks")
            ELSE pollTo(c, [r EXCEPT !.pc = "queryFilter", !.fromBlock = fromBlock,
                                     !.toBlock = rangeEnd(currentBlock, fromBlock)])
    /\ UNCHANGED chain
    /\ PollerFrame

\* contract.queryFilter resolves or rejects
pollNetworkForEvents_queryFilter(c) ==
    LET r == pollingWorker.runs[c]
        events == queryFilter(r.fromBlock + 1, r.toBlock)
    IN
    /\ pollingWorker.started
    /\ r.pc = "queryFilter"
    /\ \E ok \in BOOLEAN :
         pollingWorker' =
            IF ~ok THEN pollEnds(cursorAfterFailure(pollingWorker, r), c, r, "failed")
            ELSE IF events = <<>>
            THEN pollEnds(cursorSet(pollingWorker, r), c, r, "ok")
            ELSE pollTo(c, [r EXCEPT !.pc = "event", !.events = events])
    /\ UNCHANGED chain
    /\ PollerFrame

\* the awaited executeNativeSwapFromEvent of the next event returns or throws
pollNetworkForEvents_event(c) ==
    LET r == pollingWorker.runs[c]
        rest == [r EXCEPT !.events = Tail(r.events)]
        passed == [pollingWorker EXCEPT !.passed = @ \cup {Head(r.events)}]
    IN
    /\ pollingWorker.started
    /\ r.pc = "event"
    /\ \E returns \in BOOLEAN :
         pollingWorker' =
            IF ~returns
            THEN pollEnds(cursorAfterFailure(pollingWorker, r), c, rest, "failed")
            ELSE IF rest.events = <<>>
            THEN pollEnds(cursorSet(passed, r), c, rest, "ok")
            ELSE [passed EXCEPT !.runs[c] = rest]
    /\ UNCHANGED chain
    /\ PollerFrame

\* the server has started its EvmPollingWorker on a chain that is Lookback
\* blocks old; no deposit address exists
InitPoller ==
    /\ now = 0
    /\ quotes = <<>>
    /\ trades = <<>>
    /\ calls = [p \in Procs |-> IdleCall]
    /\ contractCalls = {}
    /\ payouts = {}
    /\ notifications = {}
    /\ hdWalletState = NoWalletRow
    /\ bitcoinWalletService = NewWallet
    /\ quoteCalls = [p \in QuoteProcs |-> IdleQuoteCall]
    /\ bitcoinDepositAddress = <<>>
    /\ monitorWorker = NewMonitor
    /\ explorer = <<>>
    /\ swaps = {}
    /\ pricing = NoPricing
    /\ bitcoinPayout = NoPayout
    /\ pollingWorker = NewPoller
    /\ chain = [head |-> Lookback, events |-> {}, mined |-> 0]
    /\ ServicesAtRest

NextPoller ==
    \/ \E n \in {1, RangeCap + 1} : Mine(n)
    \/ Emit
    \/ \E c \in Polls :
         \/ pollForAllNetworks_start(c)
         \/ pollNetworkForEvents_getBlockNumber(c)
         \/ pollNetworkForEvents_queryFilter(c)
         \/ pollNetworkForEvents_event(c)

SpecPoller == InitPoller /\ [][NextPoller]_vars

\* ------------------------------------------------- the two periodic workers
\* a server whose DepositMonitorWorker watches persisted addresses, or a server
\* without deposit addresses whose EvmPollingWorker was started
InitWorkers == InitMonitor \/ InitPoller

NextWorkers ==
    \/ \E a \in DOMAIN explorer, tx \in TxIds : Deposit(a, tx)
    \/ \E c \in Cycles :
         \/ checkPendingDeposits_start(c)
         \/ checkPendingDeposits_findMany(c)
         \/ processAddress_fetch(c)
         \/ processAddress_update(c)
         \/ processAddress_initiateSwap(c)
    \/ NextPoller

SpecWorkers == InitWorkers /\ [][NextWorkers]_vars


\* ========================================================= evm event monitor
\* EvmEventMonitorWorker.listenToNetwork for one network with a webSocketUrl:
\* the provider made by listenToNetwork, the providers made by connect(), and
\* the listeners connect() adds to the first provider's websocket.
MaxConnects == 2

MaxEmitted == 2

\* the times the first provider's websocket closes
MaxLosses == 1

ListenerFrame ==
    UNCHANGED <<now, quotes, trades, calls, contractCalls, payouts, notifications,
                hdWalletState, bitcoinWalletService, quoteCalls,
                bitcoinDepositAddress, monitorWorker, explorer, swaps, pricing,
                bitcoinPayout, pollingWorker, chain, liquidity, unitVars>>

\* contract.on("NativeTradeInitiated", ...) of listenToNetwork: the callback
\* calls tradeExecutor.executeNativeSwapFromEvent
listenerForwards == TRUE

\* contract.on("NativeTradeInitiated", ...) of connect(): the callback's body
\* is a comment
connectForwards == FALSE

Connection(forwards) == [open |-> TRUE, forwards |-> forwards]

\* connect(): a new provider and subscription, and one more 'close' listener
\* on the websocket of the first provider
connect(m) ==
    [m EXCEPT !.connections = Append(@, Connection(connectForwards)),
              !.closeListeners = @ + 1]

\* start() has run listenToNetwork: the first provider is subscribed, and
\* connect() was called once
NewEventMonitor ==
    connect([started |-> TRUE, connections |-> <<Connection(listenerForwards)>>,
             closeListeners |-> 0, timers |-> 0, losses |-> 0, events |-> <<>>])

\* a websocket closes: the network drops it, or the heartbeat terminates the
\* first one; the 'close' listeners exist on the first websocket only, and each
\* of them schedules a connect
websocket_close(i) ==
    /\ eventMonitor.started
    /\ i \in DOMAIN eventMonitor.connections
    /\ eventMonitor.connections[i].open
    /\ i = 1 => eventMonitor.losses < MaxLosses
    /\ eventMonitor' =
         [eventMonitor EXCEPT !.connections[i].open = FALSE,
                              !.losses = IF i = 1 THEN @ + 1 ELSE @,
                              !.timers = IF i = 1 THEN @ + eventMonitor.closeListeners ELSE @]
    /\ ListenerFrame

\* setTimeout(connect, 5000) fires
connect_timer ==
    /\ eventMonitor.started
    /\ eventMonitor.timers > 0
    /\ Len(eventMonitor.connections) < 2 + MaxConnects
    /\ eventMonitor' = connect([eventMonitor EXCEPT !.timers = @ - 1])
    /\ ListenerFrame

\* the library re-opens the socket of the first provider with its subscription;
\* whether it ever does is the library's
provider_reconnect ==
    /\ eventMonitor.started
    /\ ~eventMonitor.connections[1].open
    /\ eventMonitor' = [eventMonitor EXCEPT !.connections[1].open = TRUE]
    /\ ListenerFrame

\* the contract emits NativeTradeInitiated: every open subscription gets it
NativeTradeInitiated ==
    LET m == eventMonitor
        subscribed == {i \in DOMAIN m.connections : m.connections[i].open}
    IN
    /\ m.started
    /\ Len(m.events) < MaxEmitted
    /\ eventMonitor' =
         [m EXCEPT !.events = Append(@,
             [ reconnected |-> \E i \in subscribed : i > 2 \/ (i = 1 /\ m.losses > 0),
               forwarded |-> Cardinality({i \in subscribed : m.connections[i].forwards}) ])]
    /\ ListenerFrame

InitListener ==
    /\ now = 0
    /\ quotes = <<>>
    /\ trades = <<>>
    /\ calls = [p \in Procs |-> IdleCall]
    /\ contractCalls = {}
    /\ payouts = {}
    /\ notifications = {}
    /\ hdWalletState = NoWalletRow
    /\ bitcoinWalletService = NewWallet
    /\ quoteCalls = [p \in QuoteProcs |-> IdleQuoteCall]
    /\ bitcoinDepositAddress = <<>>
    /\ monitorWorker = NewMonitor
    /\ explorer = <<>>
    /\ swaps = {}
    /\ pricing = NoPricing
    /\ bitcoinPayout = NoPayout
    /\ pollingWorker = NoPoller
    /\ chain = NoChain
    /\ eventMonitor = NewEventMonitor
    /\ liquidity = NoLiquidity
    /\ UnitsAtRest

NextListener ==
    \/ \E i \in 1..(2 + MaxConnects) : websocket_close(i)
    \/ connect_timer
    \/ provider_reconnect
    \/ NativeTradeInitiated

SpecListener == InitListener /\ [][NextListener]_vars


\* ============================================================== liquidity
\* getOrderBooks and findBestQuote. Prices and quantities are whole numbers;
\* the amount a buy receives is counted in 1/Scale of the base asset, so that
\* remainingCost / price is exact for the prices below.
NumSources == 2

MaxLevels == 2

Scale == 2

\* the price levels an adapter may return
Levels == [price : {1, 2}, quantity : {1, 3}]

\* the reply of one adapter: an order book (its asks for a buy, its bids for a
\* sell), or a failed fetch, which getOrderBooks turns into null
FailedFetch == [ok |-> FALSE, levels |-> <<>>]

Replies ==
    {[ok |-> TRUE, levels |-> l] : l \in UNION {[1..n -> Levels] : n \in 0..MaxLevels}}
        \cup {FailedFetch}

\* amountToSpend / amountToSell
FromAmounts == {3, 5}

\* results.filter(ob => ob !== null): the sources whose fetch succeeded
getOrderBooks(replies) == {i \in DOMAIN replies : replies[i].ok}

\* the inner loop of findBestBuyQuote from ask k on
RECURSIVE buyWalk(_, _, _, _, _)
buyWalk(asks, k, amountReceived, cost, amountToSpend) ==
    IF k > Len(asks) THEN [received |-> amountReceived, spent |-> cost]
    ELSE LET price == asks[k].price
             quantityAvailable == asks[k].quantity
             costToBuyThisLevel == quantityAvailable * price
         IN  IF cost + costToBuyThisLevel >= amountToSpend
             THEN [ received |-> amountReceived
                                   + ((amountToSpend - cost) * Scale) \div price,
                    spent |-> cost + (amountToSpend - cost) ]
             ELSE buyWalk(asks, k + 1, amountReceived + quantityAvailable * Scale,
                          cost + costToBuyThisLevel, amountToSpend)

\* the inner loop of findBestSellQuote from bid k on
RECURSIVE sellWalk(_, _, _, _, _)
sellWalk(bids, k, amountReceived, amountSold, amountToSell) ==
    IF k > Len(bids) THEN [received |-> amountReceived, spent |-> amountSold]
    ELSE LET price == bids[k].price
             quantityAvailable == bids[k].quantity
         IN  IF amountSold + quantityAvailable >= amountToSell
             THEN [ received |-> amountReceived + (amountToSell - amountSold) * price,
                    spent |-> amountSold + (amountToSell - amountSold) ]
             ELSE sellWalk(bids, k + 1, amountReceived + quantityAvailable * price,
                           amountSold + quantityAvailable, amountToSell)

walk(tradeDirection, levels, amount) ==
    IF tradeDirection = "buy" THEN buyWalk(levels, 1, 0, 0, amount)
    ELSE sellWalk(levels, 1, 0, 0, amount)

\* a selection that takes a partly filled order too
filled_any(spent, amount) == TRUE

\* Math.abs(cost - amountToSpend) < 1e-9
filled(spent, amount) == spent = amount

NoResult == [exchangeName |-> 0, grossReceiveAmount |-> 0, costInFromAsset |-> 0]

\* the outer loop of findBestBuyQuote / findBestSellQuote from source i on;
\* exchangeName 0 is null
RECURSIVE findBest(_, _, _, _, _)
findBest(tradeDirection, replies, i, amount, bestResult) ==
    IF i > Len(replies) THEN bestResult
    ELSE IF i \notin getOrderBooks(replies)
    THEN findBest(tradeDirection, replies, i + 1, amount, bestResult)
    ELSE LET w == walk(tradeDirection, replies[i].levels, amount)
             better == /\ filled(w.spent, amount)
                       /\ \/ bestResult = NoResult
                          \/ w.received > bestResult.grossReceiveAmount
         IN  findBest(tradeDirection, replies, i + 1, amount,
                      IF better
                      THEN [exchangeName |-> i, grossReceiveAmount |-> w.received,
                            costInFromAsset |-> w.spent]
                      ELSE bestResult)

findBestQuote(tradeDirection, amount, replies) ==
    findBest(tradeDirection, replies, 1, amount, NoResult)

LiquidityFrame ==
    UNCHANGED <<now, quotes, trades, calls, contractCalls, payouts, notifications,
                hdWalletState, bitcoinWalletService, quoteCalls,
                bitcoinDepositAddress, monitorWorker, explorer, swaps, pricing,
                bitcoinPayout, pollingWorker, chain, eventMonitor, unitVars>>

\* getQuote: the adapters have replied and the best quote is chosen
getQuote_findBestQuote ==
    /\ liquidity.pc = "orderBooks"
    /\ liquidity' =
         [liquidity EXCEPT !.pc = "done",
                           !.bestRawQuote = findBestQuote(liquidity.tradeDirection,
                                                          liquidity.amount,
                                                          liquidity.replies)]
    /\ LiquidityFrame

LiquidityInputs ==
    [ pc : {"orderBooks"}, tradeDirection : {"buy", "sell"}, amount : FromAmounts,
      replies : [1..NumSources -> Replies], bestRawQuote : {NoResult} ]

InitLiquidity ==
    /\ now = 0
    /\ quotes = <<>>
    /\ trades = <<>>
    /\ calls = [p \in Procs |-> IdleCall]
    /\ contractCalls = {}
    /\ payouts = {}
    /\ notifications = {}
    /\ hdWalletState = NoWalletRow
    /\ bitcoinWalletService = NewWallet
    /\ quoteCalls = [p \in QuoteProcs |-> IdleQuoteCall]
    /\ bitcoinDepositAddress = <<>>
    /\ monitorWorker = NewMonitor
    /\ explorer = <<>>
    /\ swaps = {}
    /\ pricing = NoPricing
    /\ bitcoinPayout = NoPayout
    /\ pollingWorker = NoPoller
    /\ chain = NoChain
    /\ eventMonitor = NoEventMonitor
    /\ liquidity \in LiquidityInputs
    /\ UnitsAtRest

NextLiquidity == getQuote_findBestQuote

SpecLiquidity == InitLiquidity /\ [][NextLiquidity]_vars


\* ====================================================== quoteId on chain
\* everything outside the three units at rest
BackendAtRest ==
    /\ now = 0
    /\ quotes = <<>>
    /\ trades = <<>>
    /\ calls = [p \in Procs |-> IdleCall]
    /\ contractCalls = {}
    /\ payouts = {}
    /\ notifications = {}
    /\ hdWalletState = NoWalletRow
    /\ bitcoinWalletService = NewWallet
    /\ quoteCalls = [p \in QuoteProcs |-> IdleQuoteCall]
    /\ bitcoinDepositAddress = <<>>
    /\ monitorWorker = NewMonitor
    /\ explorer = <<>>
    /\ swaps = {}
    /\ pricing = NoPricing
    /\ bitcoinPayout = NoPayout
    /\ pollingWorker = NoPoller
    /\ chain = NoChain
    /\ eventMonitor = NoEventMonitor
    /\ liquidity = NoLiquidity

UnitFrame ==
    UNCHANGED <<now, quotes, trades, calls, contractCalls, payouts, notifications,
                hdWalletState, bitcoinWalletService, quoteCalls,
                bitcoinDepositAddress, monitorWorker, explorer, swaps, pricing,
                bitcoinPayout, pollingWorker, chain, eventMonitor, liquidity>>

\* the characters of uuidv4().replace(/-/g, ''): 32 in the code, IdLen here;
\* a bytes32 holds as many bytes as the id has characters
IdLen == 3
MaxQuoteRows == 2

HexDigits == {"a", "b"}

\* the strings uuidv4().replace(/-/g, '') can return
QuoteIdStrings == [1..IdLen -> HexDigits]

\* the UTF-8 byte of a character, as two hex digits
charCode(ch) == IF ch = "a" THEN "61" ELSE "62"

\* String.prototype.substring(0, n)
substring(str, n) == SubSeq(str, 1, n)

\* ethers.encodeBytes32String: the bytes of the text, zero-padded on the right
encodeBytes32String(text) ==
    [i \in 1..IdLen |-> IF i <= Len(text) THEN charCode(text[i]) ELSE "00"]

\* a bytes32 event argument as ethers hands it to the listener: a hex string
hexlify(bytes) == <<"0x">> \o bytes

\* createForwardRequest: quoteIdBytes32
quoteIdBytes32(quoteId) == encodeBytes32String(substring(quoteId, IdLen - 1))

\* prisma.quote.findUnique({ where: { id } }): the id of the row, or null
NotFound == <<>>

findUnique(id) == IF id \in forwarding.quote THEN id ELSE NotFound

NewForwarding == [pc |-> "run", quote |-> {}, events |-> {}, lookups |-> {}]

\* buildFinalResponse: tx.quote.create under a fresh uuid
buildFinalResponse_create ==
    /\ forwarding.pc = "run"
    /\ Cardinality(forwarding.quote) < MaxQuoteRows
    /\ \E quoteId \in QuoteIdStrings \ forwarding.quote :
         forwarding' = [forwarding EXCEPT !.quote = @ \cup {quoteId}]
    /\ UNCHANGED <<routing, conversion>>
    /\ UnitFrame

\* createForwardRequest for a persisted quote; the relayed call makes the
\* contract emit NativeTradeInitiated with the bytes32 of the calldata
createForwardRequest ==
    /\ forwarding.pc = "run"
    /\ \E quoteId \in forwarding.quote :
         forwarding' = [forwarding EXCEPT !.events = @ \cup
                           {[sent |-> quoteId,
                             quoteId |-> hexlify(quoteIdBytes32(quoteId))]}]
    /\ UNCHANGED <<routing, conversion>>
    /\ UnitFrame

\* executeNativeSwapFromEvent: decodedQuoteId = eventData.quoteId, findUnique
executeNativeSwapFromEvent_lookup ==
    /\ forwarding.pc = "run"
    /\ \E e \in forwarding.events :
         forwarding' = [forwarding EXCEPT !.lookups = @ \cup
                           {[sent |-> e.sent, found |-> findUnique(e.quoteId)]}]
    /\ UNCHANGED <<routing, conversion>>
    /\ UnitFrame

InitForwarding ==
    /\ BackendAtRest
    /\ forwarding = NewForwarding
    /\ routing = NoRouting
    /\ conversion = NoConversion

NextForwarding ==
    \/ buildFinalResponse_create
    \/ createForwardRequest
    \/ executeNativeSwapFromEvent_lookup

SpecForwarding == InitForwarding /\ [][NextForwarding]_vars


\* ===================================================== destination network
\* getQuote's choice of the Quote's toNetworkId and the network the payout of
\* executeNativeSwap / executeNativeSwapFromEvent then uses, for one asset
\* whose deployments assets.json lists in some order
MaxDeployments == 3

RoutingNetworks ==
    [ sepolia         |-> [networkType |-> "EVM",     hasChainId |-> TRUE],
      amoy            |-> [networkType |-> "EVM",     hasChainId |-> TRUE],
      bitcoin_testnet |-> [networkType |-> "BITCOIN", hasChainId |-> FALSE] ]

\* the non-empty deployment lists without repetition
DeploymentLists ==
    UNION {{d \in [1..n -> DOMAIN RoutingNetworks] :
               \A i, j \in 1..n : i # j => d[i] # d[j]} : n \in 1..MaxDeployments}

Elements(seq) == {seq[i] : i \in DOMAIN seq}

\* the requests: the asset's deployments and the optional toNetworkId
RoutingInputs ==
    {[pc |-> "request", deployments |-> d, toNetworkId |-> n,
      quoteToNetworkId |-> "none", paidOn |-> "none", by |-> "none"] :
        d \in DeploymentLists, n \in DOMAIN RoutingNetworks \cup {"none"}}

RECURSIVE evmOnly(_)
\* buildEvmReceivingOptions: the EVM deployments with a chainId, in order
evmOnly(deps) ==
    IF deps = <<>> THEN <<>>
    ELSE LET network == RoutingNetworks[Head(deps)]
             rest == evmOnly(Tail(deps))
         IN IF network.networkType = "EVM" /\ network.hasChainId
            THEN <<Head(deps)>> \o rest ELSE rest

buildEvmReceivingOptions(deps) == evmOnly(deps)

\* buildFinalResponse: finalToNetworkIdForDB
finalToNetworkIdForDB(deps, toNetworkId) ==
    IF RoutingNetworks[deps[1]].networkType = "EVM"
    THEN buildEvmReceivingOptions(deps)[1]
    ELSE toNetworkId

\* buildFinalResponse up to tx.quote.create: the Bitcoin branch throws
\* without toNetworkId
getQuote_persist ==
    /\ routing.pc = "request"
    /\ LET targetNetwork == RoutingNetworks[routing.deployments[1]] IN
       IF targetNetwork.networkType = "BITCOIN" /\ routing.toNetworkId = "none"
       THEN routing' = [routing EXCEPT !.pc = "threw"]
       ELSE routing' = [routing EXCEPT
                           !.pc = "persisted",
                           !.quoteToNetworkId =
                               finalToNetworkIdForDB(routing.deployments, routing.toNetworkId)]
    /\ UNCHANGED <<forwarding, conversion>>
    /\ UnitFrame

\* executeNativeSwap / executeNativeSwapFromEvent: toNetwork is
\* registry.getNetworkById(quote.toNetworkId), the payout goes there
executeNativeSwap_route(by) ==
    /\ routing.pc = "persisted"
    /\ routing.quoteToNetworkId \in Elements(routing.deployments)
    /\ routing' = [routing EXCEPT !.pc = "paid", !.by = by,
                                  !.paidOn = routing.quoteToNetworkId]
    /\ UNCHANGED <<forwarding, conversion>>
    /\ UnitFrame

InitRouting ==
    /\ BackendAtRest
    /\ forwarding = NoForwarding
    /\ routing \in RoutingInputs
    /\ conversion = NoConversion

NextRouting ==
    \/ getQuote_persist
    \/ executeNativeSwap_route("executeNativeSwap")
    \/ executeNativeSwap_route("executeNativeSwapFromEvent")

SpecRouting == InitRouting /\ [][NextRouting]_vars


\* ============================================================ utxo amounts
\* the exchangeRate buildFinalResponse stores for a Bitcoin-origin quote and
\* the gross amount UtxoTradeExecutionService.initiateSwap recomputes from it
\* once the deposit is confirmed. Amounts are integers; the rate is stored
\* with RateScale steps per unit, as toFixed(8) stores 10^8.
RateScale == 100

\* what findBestQuote returned for the request: costInFromAsset is fromAmount
CostsInFromAsset == {2, 4, 5, 8}
GrossReceiveAmounts == {3, 5, 8}

\* the nearest integer to a / b
roundDiv(a, b) == (2 * a + b) \div (2 * b)

\* buildFinalResponse: exchangeRate.toFixed(8), in steps of 1 / RateScale
exchangeRate(tradeDirection, grossReceiveAmount, costInFromAsset) ==
    IF grossReceiveAmount > 0 /\ costInFromAsset > 0
    THEN IF tradeDirection = "buy"
         THEN roundDiv(costInFromAsset * RateScale, grossReceiveAmount)
         ELSE roundDiv(grossReceiveAmount * RateScale, costInFromAsset)
    ELSE 0

\* initiateSwap: receivedAmountBtc * exchangeRate, in steps of 1 / RateScale
recomputedGross(receivedAmountBtc, rate) == receivedAmountBtc * rate

ConversionInputs ==
    [ pc : {"quote"}, tradeDirection : {"buy", "sell"},
      fromAmount : CostsInFromAsset, grossReceiveAmount : GrossReceiveAmounts,
      exchangeRate : {0}, receivedAmount : {0}, recomputed : {0} ]

\* buildFinalResponse persists the Quote with its exchangeRate
buildFinalResponse_rate ==
    /\ conversion.pc = "quote"
    /\ conversion' = [conversion EXCEPT
                         !.pc = "persisted",
                         !.exchangeRate = exchangeRate(conversion.tradeDirection,
                                                       conversion.grossReceiveAmount,
                                                       conversion.fromAmount)]
    /\ UNCHANGED <<forwarding, routing>>
    /\ UnitFrame

\* initiateSwap(quoteId, receivedAmountBtc) up to grossReceiveAmount; the
\* deposit may differ from the quoted amount
initiateSwap_recompute ==
    /\ conversion.pc = "persisted"
    /\ \E receivedAmountBtc \in {conversion.fromAmount - 1, conversion.fromAmount,
                                  conversion.fromAmount + 1} :
         conversion' = [conversion EXCEPT
                           !.pc = "recomputed",
                           !.receivedAmount = receivedAmountBtc,
                           !.recomputed = recomputedGross(receivedAmountBtc,
                                                          conversion.exchangeRate)]
    /\ UNCHANGED <<forwarding, routing>>
    /\ UnitFrame

InitConversion ==
    /\ BackendAtRest
    /\ forwarding = NoForwarding
    /\ routing = NoRouting
    /\ conversion \in ConversionInputs

NextConversion ==
    \/ buildFinalResponse_rate
    \/ initiateSwap_recompute

SpecConversion == InitConversion /\ [][NextConversion]_vars


\* ================================================================ claims
Done(p) == calls[p].pc = "done"

Terminal == {"COMPLETED", "FAILED"}

PayoutsOf(q) == {x \in payouts : x.quoteId = q}

\* the steps of call p: every action changes exactly one entry of calls
StepOf(p) == calls'[p] # calls[p]

NoSettlementEffect == UNCHANGED <<trades, contractCalls, payouts>>

\* C1: for every Quote at most one destination payout is ever broadcast,
\* whatever entry points name the quote and however they interleave
C1_AtMostOnePayoutPerQuote ==
    \A q \in QuoteIds : Cardinality(PayoutsOf(q)) <= 1

\* two finished calls named the same quote and its payout was broadcast
C1_Witness ==
    \E p1, p2 \in Procs :
       /\ p1 # p2
       /\ Done(p1) /\ Done(p2)
       /\ calls[p1].quoteId = calls[p2].quoteId
       /\ calls[p1].kind # calls[p2].kind
       /\ PayoutsOf(calls[p1].quoteId) # {}

\* C2: in every reachable state at most one Trade row references a Quote id
C2_AtMostOneTradePerQuote ==
    \A q \in QuoteIds : Cardinality(TradesOf(q)) <= 1

\* two calls raced through their checks and the index rejected the loser
C2_Witness ==
    \E p \in Procs :
       /\ Done(p)
       /\ calls[p].err = UniqueConstraintError
       /\ Cardinality(TradesOf(calls[p].quoteId)) = 1


\* a call of executeTrade/executeNativeSwap that was made when a Trade
\* already referenced its quote
LateCall(p) == calls[p].kind \in ApiKinds /\ calls[p].tradeExisted

\* C3 (as stated): after a Trade exists for a quoteId, a later executeTrade
\* or executeNativeSwap call with that quoteId fails with AlreadyUsed
C3_AlwaysAlreadyUsed ==
    \A p \in Procs :
       (LateCall(p) /\ Done(p)) =>
          (calls[p].outcome = "threw" /\ calls[p].err = AlreadyUsedError)

C3_Result ==
    \A p \in Procs :
       (LateCall(p) /\ Done(p)) =>
          /\ calls[p].outcome = "threw"
          /\ calls[p].tradeId = 0
          /\ \/ calls[p].err = AlreadyUsedError
             \/ /\ calls[p].err = ExpiredError
                /\ now > quotes[calls[p].quoteId].expiresAt
          /\ now <= quotes[calls[p].quoteId].expiresAt => calls[p].err = AlreadyUsedError

C3_Frame ==
    \A p \in Procs : (LateCall(p) /\ StepOf(p)) => NoSettlementEffect

\* C3 (amended): such a call fails with AlreadyUsed, or with Expired when the
\* quote has expired by the time validateQuote reads it; either way it creates
\* no Trade row, leaves the existing Trade unchanged and makes no on-chain call
C3_LateCallRejected == [] C3_Result /\ [][C3_Frame]_vars

\* a late call on a quote that has not expired was rejected as AlreadyUsed
C3_Witness ==
    \E p \in Procs :
       /\ LateCall(p) /\ Done(p)
       /\ calls[p].err = AlreadyUsedError
       /\ TradesOf(calls[p].quoteId) # {}

\* C4: when two executeTrade/executeNativeSwap calls both pass validateQuote,
\* the one whose Trade creation is rejected by the uniqueness constraint
\* reports AlreadyUsed to its caller
C4_RejectedCreateIsAlreadyUsed ==
    [][ \A p \in Procs :
          (calls[p].kind \in ApiKinds /\ calls[p].pc = "create" /\ calls'[p].pc = "done")
             => calls'[p].err = AlreadyUsedError ]_vars

\* the quote of call p was unknown, or had expired, when the call was made
DeadOnArrival(p) ==
    /\ calls[p].kind \in ApiKinds
    /\ \/ calls[p].quoteId \notin DOMAIN quotes
       \/ calls[p].startedAt > quotes[calls[p].quoteId].expiresAt

C5_Result ==
    \A p \in Procs :
       (DeadOnArrival(p) /\ Done(p)) =>
          /\ calls[p].outcome = "threw"
          /\ calls[p].tradeId = 0
          /\ calls[p].err = IF calls[p].quoteId \notin DOMAIN quotes
                              THEN NotFoundError(calls[p].quoteId)
                              ELSE ExpiredError

C5_Frame ==
    \A p \in Procs : (DeadOnArrival(p) /\ StepOf(p)) => NoSettlementEffect

\* C5: executeTrade and executeNativeSwap reject an unknown quoteId with
\* NotFound and an expired quote with Expired, and in both cases create no
\* Trade row and make no contract call, relay or payout
C5_UnknownOrExpiredRejected == [] C5_Result /\ [][C5_Frame]_vars

\* one call was rejected as NotFound and another as Expired
C5_Witness ==
    \E p1, p2 \in Procs :
       /\ Done(p1) /\ DeadOnArrival(p1) /\ calls[p1].err = NotFoundError(calls[p1].quoteId)
       /\ Done(p2) /\ DeadOnArrival(p2) /\ calls[p2].err = ExpiredError

\* C6: COMPLETED and FAILED are terminal: once written, no later step
\* changes the status of that Trade
C6_TerminalStatusNeverChanges ==
    [][ \A i \in DOMAIN trades :
          trades[i].status \in Terminal => trades'[i].status = trades[i].status ]_vars

\* C7: an executeTrade or executeNativeSwap call that fails after its Trade
\* was created leaves the Trade FAILED with the message recorded, and no call
\* ends while its Trade is still PENDING
C7_FailureRecordedBeforeRethrow ==
    \A p \in Procs :
       (calls[p].kind \in ApiKinds /\ Done(p) /\ calls[p].tradeId # 0) =>
          /\ trades[calls[p].tradeId].status # "PENDING"
          /\ calls[p].outcome = "threw" =>
                /\ trades[calls[p].tradeId].status = "FAILED"
                /\ trades[calls[p].tradeId].failureReason # <<>>

NotifiedAs(id, type) ==
    \E n \in notifications : n.tradeId = id /\ n.type = type

\* C8: every transition of a Trade to COMPLETED or FAILED is followed by a
\* TRADE_COMPLETED or TRADE_FAILED notification for that Trade (stated for
\* the calls in which no broadcast attempt threw)
C8_FinalStatusNotified ==
    \A p \in Procs :
       (Done(p) /\ calls[p].tradeId # 0 /\ calls[p].err # WebSocketError) =>
          /\ trades[calls[p].tradeId].status = "COMPLETED"
                => NotifiedAs(calls[p].tradeId, "TRADE_COMPLETED")
          /\ trades[calls[p].tradeId].status = "FAILED"
                => NotifiedAs(calls[p].tradeId, "TRADE_FAILED")

identifiesTimeout(msg) == \E i \in DOMAIN msg : msg[i] = TimeoutError[1]

TimedOut(p) ==
    \E x \in contractCalls :
       x.proc = p /\ x.method = "executeTradeWithPermit" /\ x.outcome = "timeout"

\* C9: when the contract call of executeTrade times out, the Trade becomes
\* FAILED with a reason that identifies the timeout, and the TRADE_FAILED
\* notification carries that same reason
C9_TimeoutReasonRecorded ==
    \A p \in Procs :
       (Done(p) /\ TimedOut(p)) =>
          /\ trades[calls[p].tradeId].status = "FAILED"
          /\ identifiesTimeout(trades[calls[p].tradeId].failureReason)
          /\ \A n \in notifications :
                (n.tradeId = calls[p].tradeId /\ n.type = "TRADE_FAILED")
                   => n.reason = trades[calls[p].tradeId].failureReason

\* the source network of the quote is unknown or has no chainId
BadSourceNetwork(q) ==
    \/ getNetworkById(quotes[q].fromNetworkId) = Undefined
    \/ ~getNetworkById(quotes[q].fromNetworkId).hasChainId

\* C10: a configuration error detected by executeTrade is raised before any
\* state mutation: the call has created no Trade row for the quote
C10_ConfigErrorBeforeMutation ==
    \A p \in Procs :
       ( /\ calls[p].kind = "executeTrade"
         /\ calls[p].quoteId \in DOMAIN quotes
         /\ BadSourceNetwork(calls[p].quoteId) )
       => calls[p].tradeId = 0

\* a step in which a Trade row is inserted
TradeCreated == Len(trades') > Len(trades)

\* C11: a Quote is inert after expiry: on no path, the monitor-driven ones
\* included, is a Trade created for a Quote at a time later than its expiresAt
C11_NoTradeAfterExpiry ==
    [][ TradeCreated =>
           ~isExpired(now, quotes[trades'[Len(trades')].quoteId].expiresAt) ]_vars

QuoteDone(p) == quoteCalls[p].pc = "done"

\* the calls whose getNewAddress read the index after the cursor was loaded
\* and returned an address
Allocated == {p \in QuoteProcs : quoteCalls[p].hasAddress /\ quoteCalls[p].loadAtRead = "loaded"}

\* no getNewAddress is between its read of the index and its return
NoneAllocating == \A p \in QuoteProcs : quoteCalls[p].pc # "saveIndex"

\* C12: concurrent getNewAddress calls against the loaded wallet return
\* distinct, contiguous indices, and once they have all returned the persisted
\* cursor is the lowest of these indices plus their number
C12_ConcurrentAllocationsDistinct ==
    /\ \A p, r \in Allocated : p # r => quoteCalls[p].index # quoteCalls[r].index
    /\ (NoneAllocating /\ Allocated # {}
          /\ \A p \in QuoteProcs : quoteCalls[p].hasAddress => p \in Allocated)
       => \E p \in Allocated :
             /\ \A r \in Allocated : quoteCalls[p].index <= quoteCalls[r].index
             /\ hdWalletState.nextIndex = quoteCalls[p].index + Cardinality(Allocated)

\* C13: the persisted cursor never decreases and no index is handed out
\* twice, a getNewAddress issued before the load has completed included
C13_CursorMonotoneNoReuse ==
    /\ [] (\A p, r \in QuoteProcs :
              (p # r /\ quoteCalls[p].hasAddress /\ quoteCalls[r].hasAddress)
                 => quoteCalls[p].index # quoteCalls[r].index)
    /\ [][hdWalletState'.nextIndex >= hdWalletState.nextIndex]_vars

\* C14: getNewAddress returns an address only when the persisted cursor was
\* read and the incremented cursor was written: after a failed load it
\* returns none, and a failed write returns none
C14_AddressOnlyAfterCursorPersisted ==
    \A p \in QuoteProcs :
       /\ quoteCalls[p].hasAddress => quoteCalls[p].loadAtRead # "failed"
       /\ quoteCalls[p].err = CursorWriteError => ~quoteCalls[p].hasAddress

IsUtxoOrigin(q) == getNetworkById(quotes[q].fromNetworkId).networkType = "BITCOIN"

AddressesOf(q) ==
    {i \in DOMAIN bitcoinDepositAddress : bitcoinDepositAddress[i].quoteId = q}

\* C15: in every reachable state a UTXO-origin Quote row has its
\* BitcoinDepositAddress row and every BitcoinDepositAddress row has its Quote
C15_QuoteAndAddressAtomic ==
    /\ \A q \in DOMAIN quotes : IsUtxoOrigin(q) => AddressesOf(q) # {}
    /\ \A i \in DOMAIN bitcoinDepositAddress :
          bitcoinDepositAddress[i].quoteId \in DOMAIN quotes

\* one getQuote persisted a UTXO-origin Quote with its address, and the
\* transaction of another, which held an address too, failed
C15_Witness ==
    \E p, r \in QuoteProcs :
       /\ p \in DOMAIN quotes /\ IsUtxoOrigin(p) /\ AddressesOf(p) # {}
       /\ quoteCalls[r].err = PersistError /\ quoteCalls[r].hasAddress
       /\ r \notin DOMAIN quotes

\* C16: a getQuote call that fails with a validation error has created no
\* Quote row and no BitcoinDepositAddress row and has not written the cursor
C16_ValidationErrorNoPartialState ==
    \A p \in QuoteProcs :
       (QuoteDone(p) /\ quoteCalls[p].err \in ValidationErrors) =>
          /\ ~quoteCalls[p].hasAddress
          /\ p \notin DOMAIN quotes
          /\ p \notin DOMAIN bitcoinDepositAddress

\* C19: executeNativeSwapFromEvent invoked more than once for a quote creates
\* one Trade and makes one payout, and the invocation that created no Trade
\* returns without raising an error
C19_RedundantEventSkipped ==
    \A p \in Procs :
       (calls[p].kind = "executeNativeSwapFromEvent" /\ Done(p)
          /\ calls[p].quoteId \in QuoteIds) =>
          /\ Cardinality(TradesOf(calls[p].quoteId)) <= 1
          /\ Cardinality(PayoutsOf(calls[p].quoteId)) <= 1
          /\ calls[p].tradeId = 0 => calls[p].outcome = "returned"

SwapsOf(q) == {x \in swaps : x.quoteId = q}

\* C17: over any number of monitor cycles initiateSwap is invoked exactly once
\* for a deposit address that was found paid, and the address is CONFIRMED
\* when the invocation is made
C17_SwapTriggeredExactlyOnce ==
    \A a \in DOMAIN bitcoinDepositAddress :
       LET row == bitcoinDepositAddress[a] IN
       /\ Cardinality(SwapsOf(row.quoteId)) <= 1
       /\ row.status = "CONFIRMED" <=> SwapsOf(row.quoteId) # {}
       /\ \A x \in SwapsOf(row.quoteId) : x.status = "CONFIRMED"

\* a run confirmed an address and ended, and a later run, with the paying
\* transaction still reported by the explorer, is processing its own findMany
C17_Witness ==
    \E x \in swaps, c \in Cycles :
       /\ c > x.run
       /\ monitorWorker.runs[x.run].pc = "done"
       /\ monitorWorker.runs[c].pc \in {"fetch", "update", "initiateSwap"}
       /\ \E a \in DOMAIN bitcoinDepositAddress :
             /\ bitcoinDepositAddress[a].quoteId = x.quoteId
             /\ explorer[a] # {}
             /\ Cardinality(SwapsOf(x.quoteId)) = 1

\* C18: a BitcoinDepositAddress changes status only from PENDING_DEPOSIT to
\* CONFIRMED, and once CONFIRMED the row, with its receivedTxHash and
\* receivedAmount, is never written again
C18_ConfirmedOnceNeverOverwritten ==
    [][ \A a \in DOMAIN bitcoinDepositAddress :
           /\ bitcoinDepositAddress[a].status = "CONFIRMED"
                 => bitcoinDepositAddress'[a] = bitcoinDepositAddress[a]
           /\ bitcoinDepositAddress'[a].status # bitcoinDepositAddress[a].status
                 => /\ bitcoinDepositAddress[a].status = "PENDING_DEPOSIT"
                    /\ bitcoinDepositAddress'[a].status = "CONFIRMED" ]_vars

\* the timer fired again while initiateSwap for a CONFIRMED address was
\* awaited, a second transaction paying that address being confirmed
C18_Witness ==
    \E c, d \in Cycles :
       /\ monitorWorker.runs[c].pc = "initiateSwap"
       /\ monitorWorker.runs[d].pc = "skipped"
       /\ bitcoinDepositAddress[Head(monitorWorker.runs[c].pending)].status = "CONFIRMED"
       /\ explorer[Head(monitorWorker.runs[c].pending)] = TxIds

Distance(x, y) == IF x >= y THEN x - y ELSE y - x

\* C20: the stored amounts of a Quote satisfy finalReceiveAmount =
\* grossReceiveAmount - exchangeFee - ourFee - gasCosts within the precision
\* of the stored decimals
C20_NetAmountIdentity ==
    pricing.priced =>
       Distance(pricing.finalReceiveAmount,
                pricing.grossReceiveAmount - pricing.exchangeFee
                   - pricing.ourFee - pricing.gasCosts) <= Precision

\* C21: for every persisted Quote, expiresAt minus the createdAt stored on
\* the row equals the expiry window exactly
C21_ExpiryWindowExact ==
    \A q \in DOMAIN quotes : quotes[q].expiresAt - quotes[q].createdAt = ExpiresAt

\* the fee of a transaction spending the first k UTXOs to two outputs
FeeFor(b, k) == estimateTxSize(k, 2) * b.feeRate

\* sendBitcoin is past its coin selection
Selected(b) == b.inputCount > 0

\* C22: when the treasury's UTXOs together cover the amount plus the fee of a
\* transaction spending all of them to two outputs, coin selection ends with
\* the accumulated inputs covering the amount plus the fee for the inputs
\* selected, and sendBitcoin does not fail with the insufficient-funds error
C22_SelectionCoversWhenTotalSuffices ==
    LET b == bitcoinPayout
        all == Len(b.utxos)
    IN  (/\ Selected(b)
         /\ SumTo(b.utxos, all) >= b.amountInSatoshi + FeeFor(b, all))
        => /\ b.totalInputSatoshi >= b.amountInSatoshi + FeeFor(b, b.inputCount)
           /\ b.err # InsufficientFundsError

C22_Witness ==
    LET b == bitcoinPayout
        all == Len(b.utxos)
    IN  /\ b.pc = "broadcast"
        /\ b.inputCount = 2
        /\ b.totalInputSatoshi = SumTo(b.utxos, 2)
        /\ SumTo(b.utxos, all) >= b.amountInSatoshi + FeeFor(b, all)
        /\ SumTo(b.utxos, 1) >= b.amountInSatoshi

\* no prefix of the treasury's UTXOs covers the amount plus its fee
CannotCover(b) ==
    \A k \in 1..Len(b.utxos) : SumTo(b.utxos, k) < b.amountInSatoshi + FeeFor(b, k)

\* C23: with no UTXOs sendBitcoin fails with the no-spendable-funds error, and
\* when the inputs cannot cover the amount plus the fee it fails with the
\* insufficient-funds error; in both cases nothing is signed or broadcast
C23_PayoutFailsBeforeSigning ==
    LET b == bitcoinPayout
    IN  /\ (b.pc \notin {"start", "feeRate"} /\ b.err # ExplorerError
            /\ Len(b.utxos) = 0)
           => b.err = NoSpendableUtxosError /\ ~b.signed /\ ~b.broadcast
        /\ (b.pc \notin {"start", "feeRate"} /\ b.err # ExplorerError
            /\ Len(b.utxos) > 0 /\ CannotCover(b))
           => b.err = InsufficientFundsError /\ ~b.signed /\ ~b.broadcast
        /\ b.err \in {NoSpendableUtxosError, InsufficientFundsError}
           => ~b.signed /\ ~b.broadcast /\ b.outputs = <<>>

C23_Witness ==
    /\ bitcoinPayout.pc = "done"
    /\ bitcoinPayout.err = InsufficientFundsError
    /\ bitcoinPayout.inputCount = 2
    /\ CannotCover(bitcoinPayout)

\* C24: a change remainder of exactly 546 satoshi gets a change output, a
\* remainder of 545 gets none and is left to the fee
C24_DustBoundary ==
    LET b == bitcoinPayout
        changeAmount == b.totalInputSatoshi - b.amountInSatoshi
                            - FeeFor(b, b.inputCount)
    IN  b.signed =>
            /\ changeAmount = 546 => Len(b.outputs) = 2 /\ b.outputs[2] = 546
            /\ changeAmount = 545 => b.outputs = <<b.amountInSatoshi>>

\* C25: every wait for an on-chain confirmation ends: a call that has entered
\* the service terminates, with success or failure, also when a transaction
\* it submitted is never mined
C25_EveryConfirmationWaitEnds ==
    \A p \in Procs : (calls[p].pc \notin {"idle", "done"}) ~> (calls[p].pc = "done")

\* C26: executeTrade and executeNativeSwap never create a Trade for a
\* UTXO-origin Quote: such a Trade comes only from the deposit monitor, after
\* the deposit address was confirmed
C26_ApiNeverCreatesUtxoTrade ==
    [][ \A p \in Procs :
          (StepOf(p) /\ TradeCreated /\ calls[p].kind \in ApiKinds)
              => ~IsUtxoOrigin(calls[p].quoteId) ]_vars

\* the cycles of a worker that are between their guard test and their end
Active(runs) == {c \in DOMAIN runs : runs[c].pc \notin {"idle", "skipped", "done"}}

SingleFlight(worker) ==
    /\ Cardinality(Active(worker.runs)) <= 1
    /\ worker.isChecking <=> Active(worker.runs) # {}

\* C27: within the DepositMonitorWorker and within the EvmPollingWorker at most
\* one cycle is in progress at any time, and the guard is held exactly while a
\* cycle is in progress: a tick during a cycle is skipped, and after a cycle
\* has ended, however it ended, the next tick starts one
C27_CyclesNeverOverlap ==
    /\ SingleFlight(monitorWorker)
    /\ pollingWorker.started => SingleFlight(pollingWorker)

C27_Witness ==
    /\ pollingWorker.started
    /\ pollingWorker.runs[1].result = "failed"
    /\ pollingWorker.runs[2].pc = "skipped"
    /\ pollingWorker.runs[3].pc = "queryFilter"

\* C28: a failure while handling one event does not abort the cycle of the
\* EvmPollingWorker: when a cycle has ended, no event of the range it queried
\* is left that was not handed to executeNativeSwapFromEvent
C28_FailureDoesNotAbortCycle ==
    \A c \in Polls :
        pollingWorker.runs[c].pc = "done" => pollingWorker.runs[c].events = <<>>

\* the cycles that computed a block range
Ranged == {c \in Polls : pollingWorker.runs[c].toBlock # 0}

Succeeded == {c \in Polls : pollingWorker.runs[c].result = "ok"}

\* d is the first cycle of S after cycle c
NextIn(S, c, d) == d \in S /\ c < d /\ ~\E x \in S : c < x /\ x < d

C30_NoEventSkipped ==
    /\ [][ \A c \in Polls :
            (pollingWorker'.runs[c] # pollingWorker.runs[c]
             /\ pollingWorker'.lastCheckedBlock # pollingWorker.lastCheckedBlock)
            => /\ pollingWorker'.lastCheckedBlock = pollingWorker.runs[c].toBlock
               /\ \A e \in chain.events :
                    (pollingWorker.runs[c].fromBlock < e /\ e <= pollingWorker.runs[c].toBlock)
                        => e \in pollingWorker'.passed ]_vars
    /\ [][ \A c \in Polls :
            (pollingWorker'.runs[c] # pollingWorker.runs[c]
             /\ pollingWorker'.runs[c].result = "failed")
            => pollingWorker'.lastCheckedBlock = pollingWorker.lastCheckedBlock ]_vars
    /\ [](\A c, d \in Ranged :
            (pollingWorker.runs[c].result = "failed" /\ NextIn(Ranged, c, d))
                => pollingWorker.runs[d].fromBlock = pollingWorker.runs[c].fromBlock)

\* C31: every NativeTradeInitiated event emitted after the connection was
\* lost and re-established, by a connect() that followed the loss or by the
\* first provider itself, is forwarded to executeNativeSwapFromEvent
C31_ForwardedAfterReconnect ==
    \A k \in DOMAIN eventMonitor.events :
        LET e == eventMonitor.events[k] IN
        e.reconnected => e.forwarded >= 1

\* C32: the amount executeTrade pays out is the Quote's gross destination
\* amount minus its exchangeFee, minus its ourFee, minus the actual source gas
\* cost converted to the destination asset, each deducted once
C32_PayoutDeductsEachFeeOnce ==
    pricing.sent =>
       Distance(pricing.finalAmountToSend,
                pricing.grossReceiveAmount - pricing.exchangeFee - pricing.ourFee
                   - pricing.rate * pricing.actualGasCost) <= Precision

\* the quantity a source offers in the asset the request spends
Depth(tradeDirection, levels, k) ==
    IF tradeDirection = "buy" THEN levels[k].quantity * levels[k].price
    ELSE levels[k].quantity

RECURSIVE TotalDepth(_, _, _)
TotalDepth(tradeDirection, levels, k) ==
    IF k = 0 THEN 0
    ELSE TotalDepth(tradeDirection, levels, k - 1) + Depth(tradeDirection, levels, k)

\* the sources whose fetch succeeded and whose book can fill the whole amount
CanFill ==
    {i \in getOrderBooks(liquidity.replies) :
        TotalDepth(liquidity.tradeDirection, liquidity.replies[i].levels,
                   Len(liquidity.replies[i].levels)) >= liquidity.amount}

Received(i) ==
    walk(liquidity.tradeDirection, liquidity.replies[i].levels, liquidity.amount).received

\* C33: the best quote is one of the sources that can fill the whole amount,
\* fills it whole, and no such source yields more; the result is null exactly
\* when no source can fill the amount, every fetch having failed included
C33_BestFullFillChosen ==
    liquidity.pc = "done" =>
       LET r == liquidity.bestRawQuote IN
       /\ r = NoResult <=> CanFill = {}
       /\ r # NoResult =>
             /\ r.exchangeName \in CanFill
             /\ r.costInFromAsset = liquidity.amount
             /\ r.grossReceiveAmount = Received(r.exchangeName)
             /\ \A j \in CanFill : Received(j) <= r.grossReceiveAmount

C33_Witness ==
    /\ liquidity.pc = "done"
    /\ liquidity.bestRawQuote.exchangeName = 2
    /\ 1 \in getOrderBooks(liquidity.replies) \ CanFill
    /\ Received(1) > 0

\* C34: no Trade is in status FAILED while the destination payout of its
\* Quote was broadcast
C34_NoFailedTradeWithPayoutSent ==
    \A i \in DOMAIN trades :
        trades[i].status = "FAILED" => PayoutsOf(trades[i].quoteId) = {}

\* the executeTrade calls whose executeTradeWithPermit transaction was mined
ContractCallSucceeded ==
    {x.proc : x \in {y \in contractCalls : /\ y.method = "executeTradeWithPermit"
                                            /\ y.outcome = "mined"}}

\* C38: once executeTrade's contract call has succeeded, the Trade row of that
\* call carries txHashContractCall whenever it is COMPLETED or FAILED
C38_ContractCallHashRecorded ==
    \A p \in ContractCallSucceeded :
        LET t == trades[calls[p].tradeId] IN
        t.status \in {"COMPLETED", "FAILED"} => t.txHashContractCall = "txContractCall"

\* the lookup of every event finds the Quote whose id was embedded
RoundTrip ==
    \A l \in forwarding.lookups : l.found = l.sent

\* different Quote ids reach the chain as different quoteIds
Injective ==
    \A a, b \in forwarding.events : a.sent # b.sent => a.quoteId # b.quoteId

\* C35: the quoteId embedded by createForwardRequest, read back from the
\* event by executeNativeSwapFromEvent, resolves to the Quote it was made
\* for, and two distinct Quote ids never share an on-chain quoteId
C35_QuoteIdSurvivesRoundTrip ==
    forwarding.pc = "run" => RoundTrip /\ Injective

\* C36: when getQuote was called with a toNetworkId (one of the asset's
\* networks), the persisted Quote records it and the payout of
\* executeNativeSwap / executeNativeSwapFromEvent goes to that network
C36_PayoutOnRequestedNetwork ==
    (/\ routing.pc \in {"persisted", "paid"}
     /\ routing.toNetworkId \in Elements(routing.deployments))
       => /\ routing.quoteToNetworkId = routing.toNetworkId
          /\ routing.pc = "paid" => routing.paidOn = routing.toNetworkId

\* the recomputed gross equals the quoted one up to the rounding of the
\* stored rate: half a step of the rate per unit received
RecomputedIsQuoted ==
    2 * Distance(conversion.recomputed, conversion.grossReceiveAmount * RateScale)
       <= conversion.receivedAmount

\* C37: when the deposit equals the quoted fromAmount, the gross amount
\* initiateSwap recomputes from the stored exchangeRate is the Quote's
\* grossReceiveAmount, in the buy and in the sell direction
C37_RecomputedGrossMatchesQuote ==
    (conversion.pc = "recomputed" /\ conversion.receivedAmount = conversion.fromAmount)
       => RecomputedIsQuoted

\* C39: every persisted Quote has a strictly positive finalReceiveAmount
\* (a request whose fees reach or exceed the gross amount is rejected)
C39_FinalReceiveAmountPositive ==
    pricing.priced => pricing.finalReceiveAmount > 0

====
